---- MODULE Spec2Model ----
(***************************************************************************)
(* Verification model of iota.go:                                          *)
(*   - SignedTransactionPayloadBuilder (AddInput, AddOutput,               *)
(*     AddIndexationPayload, Build)                                        *)
(*   - FoundryOutput state transition validation (genesis, state change,   *)
(*     destroy) and FoundryID derivation                                   *)
(*   - binary and JSON codec of unlock blocks and outputs                  *)
(*   - the process-wide internal API behind its read/write lock            *)
(***************************************************************************)
EXTENDS Integers, Sequences, FiniteSets

VARIABLES
    unsigTx,        \* b.unsigTx: the one UnsignedTransaction the builder points to
    inputToAddr,    \* b.inputToAddr: UTXOInputID -> owner address
    addedInputs,    \* observer: the ToBeSignedUTXOInput values given to AddInput, in call order
    addedOutputs,   \* observer: the outputs given to AddOutput, in call order
    givenPayload,   \* observer: the payload given to the last AddIndexationPayload
    last,           \* observer: what the last call was and what it returned
    returned,       \* observer: the payloads Build has returned so far
    calls,          \* observer: the number of calls made on the builder
    builds,         \* observer: the number of Build calls among them
    ws,             \* semValCtx.WorkingSet of the foundry validation
    verdict,        \* observer: the last ValidateStateTransition call and its result
    subject,        \* the value or the bytes a codec operation is called with
    outcome,        \* observer: what the codec operation returned
    internalAPI,    \* _internalAPI
    internalAPIMu,  \* _internalAPIMu
    goroutines,     \* the calls of internalEncode, internalDecode and SwapInternalAPI and where they stand
    installed       \* observer: the values _internalAPI has held, in order

vars ==
    <<unsigTx, inputToAddr, addedInputs, addedOutputs, givenPayload, last, returned, calls, builds,
      ws, verdict, subject, outcome, internalAPI, internalAPIMu, goroutines, installed>>

builderVars == <<unsigTx, inputToAddr, addedInputs, addedOutputs, givenPayload, last, returned, calls, builds>>

foundryVars == <<ws, verdict>>

codecVars == <<subject, outcome>>

apiVars == <<internalAPI, internalAPIMu, goroutines, installed>>

Nil == "nil"

-----------------------------------------------------------------------------
(* Bounds of the model *)

\* at most this many calls on the builder in a run
MaxCalls == 4

-----------------------------------------------------------------------------
(* Values the callers pass in *)

Ed25519Address(k) == [type |-> "Ed25519Address", key |-> k]

WOTSAddress(k) == [type |-> "WOTSAddress", key |-> k]

\* any other Serializable that is a fmt.Stringer (ToBeSignedUTXOInput.Address
\* is declared as Serializable), e.g. the AliasAddress of output_foundry.go
OtherAddress(k) == [type |-> "AliasAddress", key |-> k]

\* ToBeSignedUTXOInput: the address an input belongs to and the input's ID
\* (its serialized bytes, compared as a number)
ToBeSignedUTXOInput(addr, id) == [Address |-> addr, Input |-> id]

addr1 == Ed25519Address(1)

addr2 == Ed25519Address(2)

\* the inputs the callers choose from: [A, B, A] of the deduplication example,
\* one UTXO given again under another owner, a WOTS owner and an owner type
\* the signing switch does not list
ToBeSignedInputs ==
    { ToBeSignedUTXOInput(addr1, 1),
      ToBeSignedUTXOInput(addr2, 2),
      ToBeSignedUTXOInput(addr1, 3),
      ToBeSignedUTXOInput(addr1, 2),
      ToBeSignedUTXOInput(WOTSAddress(1), 3),
      ToBeSignedUTXOInput(OtherAddress(1), 1) }

\* the serialized bytes of the SigLockedSingleDeposit outputs the callers choose from
OutputBytes == {1, 2}

IndexationPayloads == {"indexation1", "indexation2"}

-----------------------------------------------------------------------------
(* Objects: a pointer and the serialized bytes of what it points to *)

\* a *UTXOInput / *SigLockedSingleDeposit: ptr tells two byte-identical
\* objects apart, bytes is the serialized form the sort compares
Obj(ptr, bytes) == [ptr |-> ptr, bytes |-> bytes]

BytesOf(seq) == [i \in 1..Len(seq) |-> seq[i].bytes]

\* Serializables{}
Serializables == <<>>

\* NewSignedTransactionBuilder
NewSignedTransactionBuilder ==
    /\ unsigTx = [Inputs |-> Serializables, Outputs |-> Serializables, Payload |-> Nil]
    /\ inputToAddr = <<>>

-----------------------------------------------------------------------------
(* Accumulation: AddInput, AddOutput, AddIndexationPayload *)

\* b.inputToAddr[id] = addr
SetInputAddr(m, id, addr) == [k \in DOMAIN m \cup {id} |-> IF k = id THEN addr ELSE m[k]]

\* mutant: the input is put in front of the inputs
AppendInput_Prepend(tx, obj) == [tx EXCEPT !.Inputs = <<obj>> \o @]

\* b.unsigTx.Inputs = append(b.unsigTx.Inputs, input.Input)
AppendInput(tx, obj) == [tx EXCEPT !.Inputs = Append(@, obj)]

\* b.unsigTx.Outputs = append(b.unsigTx.Outputs, output)
AppendOutput(tx, obj) == [tx EXCEPT !.Outputs = Append(@, obj)]

\* b.unsigTx.Payload = payload
SetPayload(tx, payload) == [tx EXCEPT !.Payload = payload]

\* a nil *SignedTransactionPayload
NilPayload == [Transaction |-> Nil, UnlockBlocks |-> <<>>]

EmptyTransaction == [Inputs |-> <<>>, Outputs |-> <<>>, Payload |-> Nil]

\* what the observer holds after a call that returns no result
NoResult(op) ==
    [op |-> op, pre |-> EmptyTransaction, err |-> "none", payload |-> NilPayload,
     signCalls |-> <<>>, txDataToBeSigned |-> <<>>]

AddInput(input) ==
    /\ calls < MaxCalls
    /\ calls' = calls + 1
    /\ inputToAddr' = SetInputAddr(inputToAddr, input.Input, input.Address)
    /\ unsigTx' = AppendInput(unsigTx, Obj(Len(addedInputs) + 1, input.Input))
    /\ addedInputs' = addedInputs \o <<input>>
    /\ last' = NoResult("Add")
    /\ UNCHANGED <<addedOutputs, givenPayload, returned, builds, foundryVars, codecVars, apiVars>>

AddOutput(bytes) ==
    /\ calls < MaxCalls
    /\ calls' = calls + 1
    /\ unsigTx' = AppendOutput(unsigTx, Obj(Len(addedOutputs) + 1, bytes))
    /\ addedOutputs' = addedOutputs \o <<Obj(Len(addedOutputs) + 1, bytes)>>
    /\ last' = NoResult("Add")
    /\ UNCHANGED <<inputToAddr, addedInputs, givenPayload, returned, builds, foundryVars, codecVars, apiVars>>

AddIndexationPayload(payload) ==
    /\ calls < MaxCalls
    /\ calls' = calls + 1
    /\ unsigTx' = SetPayload(unsigTx, payload)
    /\ givenPayload' = payload
    /\ last' = NoResult("Add")
    /\ UNCHANGED <<inputToAddr, addedInputs, addedOutputs, returned, builds, foundryVars, codecVars, apiVars>>

-----------------------------------------------------------------------------
(* Build *)

\* Reference is a uint16
Uint16Range == 65536

uint16(n) == n % Uint16Range

ReferenceUnlockBlock(pos) == [type |-> "ReferenceUnlockBlock", Reference |-> uint16(pos)]

SignatureUnlockBlock(signature) == [type |-> "SignatureUnlockBlock", Signature |-> signature]

\* var signature Serializable, before anything is assigned to it
NilSignature == [type |-> Nil]

\* the Ed25519Signature Build fills from what signer.Sign returned
Ed25519Signature(signatureBytes, optPublicKey) ==
    [type |-> "Ed25519Signature", Signature |-> signatureBytes, PublicKey |-> optPublicKey]

\* the permutations of 1..n
Orderings(n) == {p \in [1..n -> 1..n] : \A i, j \in 1..n : p[i] = p[j] => i = j}

\* SortedSerializables.Less: compares the serialized bytes of two elements
Less(a, b) == a.bytes < b.bytes

\* mutant: the sort is left out
SortSerializables_Unsorted(seq) == {seq}

\* sort.Sort(SortedSerializables(x)): the outcomes are the orderings of x in
\* which no element is Less than one before it; sort.Sort is not stable, so
\* which of them it leaves when elements are byte-identical is not determined
SortSerializables(seq) ==
    { [i \in 1..Len(seq) |-> seq[p[i]]] : p \in
        { q \in Orderings(Len(seq)) :
            \A i, j \in 1..Len(seq) : i < j => ~Less(seq[q[j]], seq[q[i]]) } }

\* UnsignedTransaction.Serialize(DeSeriModePerformValidation): invalid says
\* whether the validation rejects the transaction; the data are the bytes of
\* the inputs, of the outputs and the payload, in order.
Serialize(tx, invalid) ==
    IF invalid
    THEN [err |-> TRUE, data |-> <<>>]
    ELSE [err |-> FALSE, data |-> <<BytesOf(tx.Inputs), BytesOf(tx.Outputs), tx.Payload>>]

\* addr.(fmt.Stringer).String(): the text of an address names its type and its bytes
String(addr) == <<addr.type, addr.key>>

\* signer.Sign(addr, msg): the signer is an external capability; signer is
\* the number of the call (within one Build) it answers with an error, 0 for none
Sign(signer, callNo, addr, msg) ==
    [signatureBytes |-> <<"signature", addr, msg>>,
     optPublicKey |-> <<"publicKey", addr>>,
     err |-> (signer = callNo)]

\* the switch addr.(type) of Build: WOTS panics, Ed25519 wraps the signature,
\* any other type leaves signature nil
SignatureFor(addr, signed) ==
    CASE addr.type = "WOTSAddress" -> [panic |-> TRUE, signature |-> NilSignature]
      [] addr.type = "Ed25519Address" ->
            [panic |-> FALSE, signature |-> Ed25519Signature(signed.signatureBytes, signed.optPublicKey)]
      [] OTHER -> [panic |-> FALSE, signature |-> NilSignature]

\* mutant: the position of the signature block is not recorded
SetSigBlockPos_Forgets(m, addrStr, i) == m

\* sigBlockPos[addrStr] = i
SetSigBlockPos(m, addrStr, i) == [k \in DOMAIN m \cup {addrStr} |-> IF k = addrStr THEN i ELSE m[k]]

\* mutant: the reference points one position too far
AlreadySigned_NextPos(st, pos) == [st EXCEPT !.unlockBlocks = Append(@, ReferenceUnlockBlock(pos + 1))]

\* mutant: no unlock block is emitted for an input whose address is already signed
AlreadySigned_NoBlock(st, pos) == st

\* the unlock block of an input whose address already has a signature unlock block
AlreadySigned(st, pos) == [st EXCEPT !.unlockBlocks = Append(@, ReferenceUnlockBlock(pos))]

\* mutant: the error of signer.Sign is not looked at
AfterSign_IgnoresError(st, i, addr, addrStr, txDataToBeSigned, signer) ==
    LET signed == Sign(signer, Len(st.signCalls) + 1, addr, txDataToBeSigned)
        called == [st EXCEPT !.signCalls =
                      Append(@, [addr |-> addr, msg |-> txDataToBeSigned, err |-> signed.err])]
    IN  IF SignatureFor(addr, signed).panic THEN [called EXCEPT !.err = "panic"]
        ELSE [called EXCEPT !.unlockBlocks =
                                Append(@, SignatureUnlockBlock(SignatureFor(addr, signed).signature)),
                            !.sigBlockPos = SetSigBlockPos(@, addrStr, i)]

\* the state of the loop after signer.Sign was called for the input at i
AfterSign(st, i, addr, addrStr, txDataToBeSigned, signer) ==
    LET signed == Sign(signer, Len(st.signCalls) + 1, addr, txDataToBeSigned)
        called == [st EXCEPT !.signCalls =
                      Append(@, [addr |-> addr, msg |-> txDataToBeSigned, err |-> signed.err])]
    IN  IF signed.err THEN [called EXCEPT !.err = "sign"]
        ELSE IF SignatureFor(addr, signed).panic THEN [called EXCEPT !.err = "panic"]
        ELSE [called EXCEPT !.unlockBlocks =
                                Append(@, SignatureUnlockBlock(SignatureFor(addr, signed).signature)),
                            !.sigBlockPos = SetSigBlockPos(@, addrStr, i)]

\* one pass of the loop body for the input at (0-based) index i
UnlockInput(st, i, inputs, addrOf, txDataToBeSigned, signer) ==
    LET addr == addrOf[inputs[i + 1].bytes]
        addrStr == String(addr)
    IN  IF addrStr \in DOMAIN st.sigBlockPos
        THEN AlreadySigned(st, st.sigBlockPos[addrStr])
        ELSE AfterSign(st, i, addr, addrStr, txDataToBeSigned, signer)

RECURSIVE UnlockInputs(_, _, _, _, _, _)
\* for i, input := range b.unsigTx.Inputs, left as soon as a pass returns or panics
UnlockInputs(st, i, inputs, addrOf, txDataToBeSigned, signer) ==
    IF i >= Len(inputs) \/ st.err # "none" THEN st
    ELSE UnlockInputs(UnlockInput(st, i, inputs, addrOf, txDataToBeSigned, signer),
                      i + 1, inputs, addrOf, txDataToBeSigned, signer)

\* the payload Build returns: it holds the builder's own *UnsignedTransaction
SignedTransactionPayload(unlockBlocks) == [Transaction |-> "b.unsigTx", UnlockBlocks |-> unlockBlocks]

\* mutant: the error of Serialize is not looked at
BuildResult_IgnoresSerializeError(tx, addrOf, signer, invalid) ==
    LET ser == Serialize(tx, invalid)
        st0 == [sigBlockPos |-> <<>>, unlockBlocks |-> <<>>, signCalls |-> <<>>, err |-> "none"]
        st  == UnlockInputs(st0, 0, tx.Inputs, addrOf, ser.data, signer)
    IN  [err |-> IF ser.err THEN "serialize" ELSE st.err,
         payload |-> IF st.err = "none" THEN SignedTransactionPayload(st.unlockBlocks) ELSE NilPayload,
         signCalls |-> st.signCalls,
         txDataToBeSigned |-> ser.data]

\* what Build returns for the sorted transaction tx: the error (or panic), the
\* payload and the calls the signer saw
BuildResult(tx, addrOf, signer, invalid) ==
    LET ser == Serialize(tx, invalid)
        st0 == [sigBlockPos |-> <<>>, unlockBlocks |-> <<>>, signCalls |-> <<>>, err |-> "none"]
        st  == UnlockInputs(st0, 0, tx.Inputs, addrOf, ser.data, signer)
    IN  IF ser.err
        THEN [err |-> "serialize", payload |-> NilPayload, signCalls |-> <<>>, txDataToBeSigned |-> <<>>]
        ELSE [err |-> st.err,
              payload |-> IF st.err = "none" THEN SignedTransactionPayload(st.unlockBlocks) ELSE NilPayload,
              signCalls |-> st.signCalls,
              txDataToBeSigned |-> ser.data]

\* the transaction a payload's Transaction pointer leads to
Deref(ptr) == IF ptr = "b.unsigTx" THEN unsigTx ELSE EmptyTransaction

Build(signer, invalid) ==
    /\ calls < MaxCalls
    /\ calls' = calls + 1
    /\ builds' = builds + 1
    /\ \E inputs \in SortSerializables(unsigTx.Inputs), outputs \in SortSerializables(unsigTx.Outputs) :
         LET tx  == [unsigTx EXCEPT !.Inputs = inputs, !.Outputs = outputs]
             res == BuildResult(tx, inputToAddr, signer, invalid)
         IN  /\ unsigTx' = tx
             /\ last' = [op |-> "Build", pre |-> unsigTx, err |-> res.err,
                         payload |-> res.payload, signCalls |-> res.signCalls,
                         txDataToBeSigned |-> res.txDataToBeSigned]
             /\ returned' = IF res.err = "none"
                            THEN Append(returned, [payload |-> res.payload, asReturned |-> tx])
                            ELSE returned
    /\ UNCHANGED <<inputToAddr, addedInputs, addedOutputs, givenPayload, foundryVars, codecVars, apiVars>>

-----------------------------------------------------------------------------
(* FoundryOutput: identifiers *)

\* at most this many outputs in the transaction of the working set
MaxTxOutputs == 3

AliasAddress(aliasID) == OtherAddress(aliasID)

\* AliasAddress.AliasID
AliasID(addr) == addr.key

\* AliasAddress.Serialize: the bytes of the alias ID
AddressBytes(addr) == <<addr.key>>

ByteRange == 256

\* mutant: the bytes are written in big-endian order
LittleEndian32_BigEndian(n) ==
    << (n \div (ByteRange * ByteRange * ByteRange)) % ByteRange,
       (n \div (ByteRange * ByteRange)) % ByteRange,
       (n \div ByteRange) % ByteRange,
       n % ByteRange >>

\* binary.LittleEndian.PutUint32
LittleEndian32(n) ==
    << n % ByteRange,
       (n \div ByteRange) % ByteRange,
       (n \div (ByteRange * ByteRange)) % ByteRange,
       (n \div (ByteRange * ByteRange * ByteRange)) % ByteRange >>

\* TokenScheme.Type() of the SimpleTokenScheme
SimpleTokenScheme == [type |-> 0]

\* another implementation of the TokenScheme interface
OtherTokenScheme == [type |-> 1]

ImmutableAliasUnlockCondition(addr) == [type |-> "ImmutableAliasUnlockCondition", Address |-> addr]

FoundryOutput(aliasID, serialNumber, tokenTag, circulatingSupply, maximumSupply, immutableBlocks) ==
    [type |-> "FoundryOutput",
     SerialNumber |-> serialNumber,
     TokenTag |-> tokenTag,
     CirculatingSupply |-> circulatingSupply,
     MaximumSupply |-> maximumSupply,
     TokenScheme |-> SimpleTokenScheme,
     Conditions |-> <<ImmutableAliasUnlockCondition(AliasAddress(aliasID))>>,
     ImmutableBlocks |-> immutableBlocks]

\* an output of the transaction that is no FoundryOutput
ExtendedOutput == [type |-> "ExtendedOutput"]

AliasOutput(aliasID, foundryCounter) ==
    [type |-> "AliasOutput", AliasID |-> aliasID, FoundryCounter |-> foundryCounter]

IsFoundryOutput(output) == output.type = "FoundryOutput"

\* FoundryOutput.Ident
Ident(f) == f.Conditions[1].Address

\* FoundryOutput.ID / MustID: address bytes, serial number, token scheme type
ID(f) == AddressBytes(Ident(f)) \o LittleEndian32(f.SerialNumber) \o <<f.TokenScheme.type>>

\* FoundryOutput.NativeTokenID / MustNativeTokenID: the foundry ID, then the token tag
NativeTokenID(f) == ID(f) \o f.TokenTag

\* the length of a serialized AliasAddress
AliasAddressSerializedBytesSize == Len(AddressBytes(AliasAddress(1)))

UInt32ByteSize == 4

\* binary.LittleEndian.Uint32
LittleEndianUint32(bytes) ==
    bytes[1] + bytes[2] * ByteRange + bytes[3] * ByteRange * ByteRange
    + bytes[4] * ByteRange * ByteRange * ByteRange

\* FoundryID.FoundrySerialNumber
FoundrySerialNumber(fID) ==
    LittleEndianUint32(SubSeq(fID, AliasAddressSerializedBytesSize + 1,
                              AliasAddressSerializedBytesSize + UInt32ByteSize))

-----------------------------------------------------------------------------
(* FoundryOutput.ValidateStateTransition *)

NoError == [err |-> Nil, at |-> Nil]

Error(err, at) == [err |-> err, at |-> at]

Panic(at) == [err |-> "panic", at |-> at]

\* a NativeTokenSum entry, a missing one counting as zero
SumOf(sums, tokenID) == IF tokenID \in DOMAIN sums THEN sums[tokenID] ELSE 0

\* NativeTokenSumBalancedWithDiff: the output sum minus the input sum of the
\* token must be the given difference
NativeTokenSumBalancedWithDiff(tokenID, inSums, outSums, diff) ==
    IF SumOf(outSums, tokenID) - SumOf(inSums, tokenID) = diff
    THEN NoError
    ELSE Error("ErrNativeTokenSumUnbalanced", "balance")

\* mutant: the interval of the error message, [start, end), instead of (start, end]
SerialNumberOutsideInterval_ClosedOpen(startSerial, endIncSerial, serialNumber) ==
    startSerial > serialNumber \/ serialNumber >= endIncSerial

\* startSerial >= f.SerialNumber || f.SerialNumber > endIncSerial
SerialNumberOutsideInterval(startSerial, endIncSerial, serialNumber) ==
    startSerial >= serialNumber \/ serialNumber > endIncSerial

RECURSIVE SerialNumberOrder_NoBreak(_, _, _, _)
\* mutant: the loop does not stop at this foundry and goes on over the
\* outputs that follow it
SerialNumberOrder_NoBreak(f, workingSet, thisFoundryID, i) ==
    IF i > Len(workingSet.Outputs) THEN NoError
    ELSE LET output == workingSet.Outputs[i]
         IN  IF ~IsFoundryOutput(output)
                THEN SerialNumberOrder_NoBreak(f, workingSet, thisFoundryID, i + 1)
             ELSE IF Ident(output) # Ident(f)
                THEN SerialNumberOrder_NoBreak(f, workingSet, thisFoundryID, i + 1)
             ELSE IF ID(output) \in workingSet.InChains.foundry
                THEN SerialNumberOrder_NoBreak(f, workingSet, thisFoundryID, i + 1)
             ELSE IF ID(output) = thisFoundryID
                THEN SerialNumberOrder_NoBreak(f, workingSet, thisFoundryID, i + 1)
             ELSE IF output.SerialNumber >= f.SerialNumber
                THEN Error("ErrInvalidChainStateTransition", "serial number order")
             ELSE SerialNumberOrder_NoBreak(f, workingSet, thisFoundryID, i + 1)

RECURSIVE SerialNumberOrder_StrictlyGreater(_, _, _, _)
\* mutant: an earlier foundry fails the order only with a greater serial number
SerialNumberOrder_StrictlyGreater(f, workingSet, thisFoundryID, i) ==
    IF i > Len(workingSet.Outputs) THEN NoError
    ELSE LET output == workingSet.Outputs[i]
         IN  IF ~IsFoundryOutput(output)
                THEN SerialNumberOrder_StrictlyGreater(f, workingSet, thisFoundryID, i + 1)
             ELSE IF Ident(output) # Ident(f)
                THEN SerialNumberOrder_StrictlyGreater(f, workingSet, thisFoundryID, i + 1)
             ELSE IF ID(output) \in workingSet.InChains.foundry
                THEN SerialNumberOrder_StrictlyGreater(f, workingSet, thisFoundryID, i + 1)
             ELSE IF ID(output) = thisFoundryID
                THEN NoError
             ELSE IF output.SerialNumber > f.SerialNumber
                THEN Error("ErrInvalidChainStateTransition", "serial number order")
             ELSE SerialNumberOrder_StrictlyGreater(f, workingSet, thisFoundryID, i + 1)

RECURSIVE SerialNumberOrder(_, _, _, _)
\* the loop over semValCtx.WorkingSet.Tx.Essence.Outputs, from (1-based) index i on
SerialNumberOrder(f, workingSet, thisFoundryID, i) ==
    IF i > Len(workingSet.Outputs) THEN NoError
    ELSE LET output == workingSet.Outputs[i]
         IN  IF ~IsFoundryOutput(output)
                THEN SerialNumberOrder(f, workingSet, thisFoundryID, i + 1)
             ELSE IF Ident(output) # Ident(f)
                THEN SerialNumberOrder(f, workingSet, thisFoundryID, i + 1)
             ELSE IF ID(output) \in workingSet.InChains.foundry
                THEN SerialNumberOrder(f, workingSet, thisFoundryID, i + 1)
             ELSE IF ID(output) = thisFoundryID
                THEN NoError
             ELSE IF output.SerialNumber >= f.SerialNumber
                THEN Error("ErrInvalidChainStateTransition", "serial number order")
             ELSE SerialNumberOrder(f, workingSet, thisFoundryID, i + 1)

\* FoundryOutput.checkSerialNumberAgainstAliasFoundries
checkSerialNumberAgainstAliasFoundries(f, workingSet, inAlias, outAlias, thisFoundryID) ==
    IF SerialNumberOutsideInterval(inAlias.FoundryCounter, outAlias.FoundryCounter, f.SerialNumber)
    THEN Error("ErrInvalidChainStateTransition", "serial number interval")
    ELSE SerialNumberOrder(f, workingSet, thisFoundryID, 1)

\* mutant: the output side alias is looked up among the input chains
checkStateGenesisTransition_OutAliasFromInput(f, workingSet, thisFoundryID, inSums, outSums) ==
    LET aliasID == AliasID(Ident(f))
    IN  IF aliasID \notin DOMAIN workingSet.InChains.alias
        THEN Error("ErrInvalidChainStateTransition", "missing input alias")
        ELSE LET serial == checkSerialNumberAgainstAliasFoundries(
                               f, workingSet, workingSet.InChains.alias[aliasID],
                               workingSet.InChains.alias[aliasID], thisFoundryID)
             IN  IF serial # NoError THEN serial
                 ELSE NativeTokenSumBalancedWithDiff(NativeTokenID(f), inSums, outSums, f.CirculatingSupply)

\* mutant: the sums are balanced against the maximum supply
checkStateGenesisTransition_DiffMaximumSupply(f, workingSet, thisFoundryID, inSums, outSums) ==
    LET aliasID == AliasID(Ident(f))
    IN  IF aliasID \notin DOMAIN workingSet.InChains.alias
        THEN Error("ErrInvalidChainStateTransition", "missing input alias")
        ELSE IF aliasID \notin DOMAIN workingSet.OutChains.alias
        THEN Error("ErrInvalidChainStateTransition", "missing output alias")
        ELSE LET serial == checkSerialNumberAgainstAliasFoundries(
                               f, workingSet, workingSet.InChains.alias[aliasID],
                               workingSet.OutChains.alias[aliasID], thisFoundryID)
             IN  IF serial # NoError THEN serial
                 ELSE NativeTokenSumBalancedWithDiff(NativeTokenID(f), inSums, outSums, f.MaximumSupply)

\* FoundryOutput.checkStateGenesisTransition
checkStateGenesisTransition(f, workingSet, thisFoundryID, inSums, outSums) ==
    LET aliasID == AliasID(Ident(f))
    IN  IF aliasID \notin DOMAIN workingSet.InChains.alias
        THEN Error("ErrInvalidChainStateTransition", "missing input alias")
        ELSE IF aliasID \notin DOMAIN workingSet.OutChains.alias
        THEN Error("ErrInvalidChainStateTransition", "missing output alias")
        ELSE LET serial == checkSerialNumberAgainstAliasFoundries(
                               f, workingSet, workingSet.InChains.alias[aliasID],
                               workingSet.OutChains.alias[aliasID], thisFoundryID)
             IN  IF serial # NoError THEN serial
                 ELSE NativeTokenSumBalancedWithDiff(NativeTokenID(f), inSums, outSums, f.CirculatingSupply)

\* mutant: the token tag is not compared
checkStateChangeTransition_SkipsTokenTag(f, next, inSums, outSums) ==
    IF ~IsFoundryOutput(next)
    THEN Error("ErrInvalidChainStateTransition", "next state is no foundry output")
    ELSE IF f.ImmutableBlocks # next.ImmutableBlocks
    THEN Error("ErrInvalidChainStateTransition", "immutable feature blocks")
    ELSE IF ID(f) # ID(next)
    THEN Panic("foundry IDs mismatch")
    ELSE IF f.MaximumSupply # next.MaximumSupply
    THEN Error("ErrInvalidChainStateTransition", "maximum supply")
    ELSE NativeTokenSumBalancedWithDiff(NativeTokenID(f), inSums, outSums,
                                        next.CirculatingSupply - f.CirculatingSupply)

\* mutant: the difference of the supplies is taken the other way round
checkStateChangeTransition_ReversedDiff(f, next, inSums, outSums) ==
    IF ~IsFoundryOutput(next)
    THEN Error("ErrInvalidChainStateTransition", "next state is no foundry output")
    ELSE IF f.ImmutableBlocks # next.ImmutableBlocks
    THEN Error("ErrInvalidChainStateTransition", "immutable feature blocks")
    ELSE IF ID(f) # ID(next)
    THEN Panic("foundry IDs mismatch")
    ELSE IF f.MaximumSupply # next.MaximumSupply
    THEN Error("ErrInvalidChainStateTransition", "maximum supply")
    ELSE IF f.TokenTag # next.TokenTag
    THEN Error("ErrInvalidChainStateTransition", "token tag")
    ELSE NativeTokenSumBalancedWithDiff(NativeTokenID(f), inSums, outSums,
                                        f.CirculatingSupply - next.CirculatingSupply)

\* mutant: the maximum supply is compared before the foundry IDs
checkStateChangeTransition_MaximumSupplyFirst(f, next, inSums, outSums) ==
    IF ~IsFoundryOutput(next)
    THEN Error("ErrInvalidChainStateTransition", "next state is no foundry output")
    ELSE IF f.ImmutableBlocks # next.ImmutableBlocks
    THEN Error("ErrInvalidChainStateTransition", "immutable feature blocks")
    ELSE IF f.MaximumSupply # next.MaximumSupply
    THEN Error("ErrInvalidChainStateTransition", "maximum supply")
    ELSE IF ID(f) # ID(next)
    THEN Panic("foundry IDs mismatch")
    ELSE IF f.TokenTag # next.TokenTag
    THEN Error("ErrInvalidChainStateTransition", "token tag")
    ELSE NativeTokenSumBalancedWithDiff(NativeTokenID(f), inSums, outSums,
                                        next.CirculatingSupply - f.CirculatingSupply)

\* FoundryOutput.checkStateChangeTransition
checkStateChangeTransition(f, next, inSums, outSums) ==
    IF ~IsFoundryOutput(next)
    THEN Error("ErrInvalidChainStateTransition", "next state is no foundry output")
    ELSE IF f.ImmutableBlocks # next.ImmutableBlocks
    THEN Error("ErrInvalidChainStateTransition", "immutable feature blocks")
    ELSE IF ID(f) # ID(next)
    THEN Panic("foundry IDs mismatch")
    ELSE IF f.MaximumSupply # next.MaximumSupply
    THEN Error("ErrInvalidChainStateTransition", "maximum supply")
    ELSE IF f.TokenTag # next.TokenTag
    THEN Error("ErrInvalidChainStateTransition", "token tag")
    ELSE NativeTokenSumBalancedWithDiff(NativeTokenID(f), inSums, outSums,
                                        next.CirculatingSupply - f.CirculatingSupply)

\* mutant: an unknown transition type is let through
ValidateStateTransition_UnknownPasses(f, transType, next, workingSet) ==
    LET inSums == workingSet.InNativeTokens
        outSums == workingSet.OutNativeTokens
    IN  CASE transType = "ChainTransitionTypeGenesis" ->
                checkStateGenesisTransition(f, workingSet, ID(f), inSums, outSums)
          [] transType = "ChainTransitionTypeStateChange" ->
                checkStateChangeTransition(f, next, inSums, outSums)
          [] transType = "ChainTransitionTypeDestroy" ->
                NativeTokenSumBalancedWithDiff(NativeTokenID(f), inSums, outSums, 0)
          [] OTHER -> NoError

\* FoundryOutput.ValidateStateTransition
ValidateStateTransition(f, transType, next, workingSet) ==
    LET inSums == workingSet.InNativeTokens
        outSums == workingSet.OutNativeTokens
    IN  CASE transType = "ChainTransitionTypeGenesis" ->
                checkStateGenesisTransition(f, workingSet, ID(f), inSums, outSums)
          [] transType = "ChainTransitionTypeStateChange" ->
                checkStateChangeTransition(f, next, inSums, outSums)
          [] transType = "ChainTransitionTypeDestroy" ->
                NativeTokenSumBalancedWithDiff(NativeTokenID(f), inSums, outSums, 0)
          [] OTHER -> Panic("unknown chain transition type")

-----------------------------------------------------------------------------
(* The working sets the validation is applied to *)

FoundryOf(aliasID, serialNumber) == FoundryOutput(aliasID, serialNumber, <<7>>, 1, 2, <<>>)

\* a foundry that differs from FoundryOf(aliasID, serialNumber) in the token scheme only
FoundryWithScheme(aliasID, serialNumber, tokenScheme) ==
    [FoundryOf(aliasID, serialNumber) EXCEPT !.TokenScheme = tokenScheme]

\* the outputs a transaction is made of: new or old foundries of alias 1 (two
\* of them with one serial number and different token schemes), a foundry of
\* alias 2, an output of another type
TxOutputs ==
    {FoundryOf(1, 1), FoundryOf(1, 2), FoundryOf(1, 3), FoundryWithScheme(1, 2, OtherTokenScheme),
     FoundryOf(2, 2), ExtendedOutput}

\* ErrNonUniqueFoundryOutputs: no two foundry outputs of a transaction have the same FoundryID
UniqueFoundryOutputs(outputs) ==
    \A i, j \in 1..Len(outputs) :
        (i # j /\ IsFoundryOutput(outputs[i]) /\ IsFoundryOutput(outputs[j])) => ID(outputs[i]) # ID(outputs[j])

OutputSequences ==
    {outputs \in UNION {[1..n -> TxOutputs] : n \in 0..MaxTxOutputs} : UniqueFoundryOutputs(outputs)}

\* the alias chains of one side: alias 2 with the given counter, alias 1 with
\* counter c1 or, when c1 is -1, missing
AliasChains(c1, c2) ==
    [a \in (IF c1 = -1 THEN {} ELSE {1}) \cup {2} |-> AliasOutput(a, IF a = 1 THEN c1 ELSE c2)]

InChainsChoices ==
    {[alias |-> AliasChains(c1, 0), foundry |-> old] : c1 \in {-1, 0, 1, 2}, old \in {{}, {ID(FoundryOf(1, 1))}}}

OutChainsChoices ==
    {[alias |-> AliasChains(c1, 3), foundry |-> {}] : c1 \in {-1, 1, 2, 3}}

EmptySum == <<>>

TokenIDs == {NativeTokenID(o) : o \in {x \in TxOutputs : IsFoundryOutput(x)}}

InNativeTokensChoices == {EmptySum, [t \in {NativeTokenID(FoundryOf(1, 2))} |-> 1]}

OutNativeTokensChoices == {EmptySum, [t \in TokenIDs |-> 1], [t \in TokenIDs |-> 2]}

WorkingSets ==
    [Outputs : OutputSequences,
     InChains : InChainsChoices,
     OutChains : OutChainsChoices,
     InNativeTokens : InNativeTokensChoices,
     OutNativeTokens : OutNativeTokensChoices]

EmptyWorkingSet ==
    [Outputs |-> <<>>,
     InChains |-> [alias |-> <<>>, foundry |-> {}],
     OutChains |-> [alias |-> <<>>, foundry |-> {}],
     InNativeTokens |-> EmptySum,
     OutNativeTokens |-> EmptySum]

\* no ID was derived
NoIDs == [f |-> <<>>, next |-> <<>>, serial |-> 0, token |-> <<>>]

NoVerdict ==
    [transType |-> "none", index |-> 0, f |-> ExtendedOutput, next |-> ExtendedOutput,
     result |-> NoError, ids |-> NoIDs]

\* the STVF of the new foundry output at index i of the transaction
ValidateGenesis(i) ==
    /\ IsFoundryOutput(ws.Outputs[i])
    /\ verdict' = [transType |-> "ChainTransitionTypeGenesis", index |-> i,
                   f |-> ws.Outputs[i], next |-> ExtendedOutput, ids |-> NoIDs,
                   result |-> ValidateStateTransition(ws.Outputs[i], "ChainTransitionTypeGenesis",
                                                      ExtendedOutput, ws)]
    /\ UNCHANGED <<ws, builderVars, codecVars, apiVars>>

\* the positions of the foundry outputs the transaction creates: their
\* FoundryIDs are not among the input chains
NewFoundries(workingSet) ==
    {i \in 1..Len(workingSet.Outputs) :
        /\ IsFoundryOutput(workingSet.Outputs[i])
        /\ ID(workingSet.Outputs[i]) \notin workingSet.InChains.foundry}

\* the STVF of every new foundry output of the transaction, in output order:
\* the first error is the result
ValidateGenesisOfEveryNew ==
    /\ NewFoundries(ws) # {}
    /\ LET results == [i \in NewFoundries(ws) |->
                          ValidateStateTransition(ws.Outputs[i], "ChainTransitionTypeGenesis",
                                                  ExtendedOutput, ws)]
           failed == {i \in NewFoundries(ws) : results[i] # NoError}
           first == CHOOSE i \in failed : \A j \in failed : i <= j
       IN  verdict' = [transType |-> "ChainTransitionTypeGenesis of every new foundry", index |-> 0,
                       f |-> ExtendedOutput, next |-> ExtendedOutput, ids |-> NoIDs,
                       result |-> IF failed = {} THEN NoError ELSE results[first]]
    /\ UNCHANGED <<ws, builderVars, codecVars, apiVars>>

\* mutant: the validation takes what it balanced out of the output sums
ValidateStateChange_ConsumesSums(f, next) ==
    /\ verdict' = [transType |-> "ChainTransitionTypeStateChange", index |-> 0,
                   f |-> f, next |-> next, ids |-> NoIDs,
                   result |-> ValidateStateTransition(f, "ChainTransitionTypeStateChange", next, ws)]
    /\ ws' = [ws EXCEPT !.OutNativeTokens = EmptySum]
    /\ UNCHANGED <<builderVars, codecVars, apiVars>>

-----------------------------------------------------------------------------
(* The state changes and destructions the validation is applied to *)

\* the supplies of a foundry and the sums of its native token run up to this
MaxSupply == 3

Supplies == 0..MaxSupply

MetadataFeatureBlock == [type |-> "MetadataFeatureBlock", Data |-> <<1>>]

\* the prior states f: foundry 1 of alias 1 with any circulating supply
PriorStates == {FoundryOutput(1, 1, <<7>>, c, 2, <<>>) : c \in Supplies}

\* the next states: foundries that differ from the prior state in any of serial
\* number (and so FoundryID), token tag, supplies and immutable feature
\* blocks, and an output of another type
NextStates ==
    {FoundryOutput(1, s, t, c, mx, b) :
        s \in {1, 2}, t \in {<<7>>, <<8>>}, c \in Supplies, mx \in {2, MaxSupply},
        b \in {<<>>, <<MetadataFeatureBlock>>}}
    \cup {ExtendedOutput}

\* the sums of the prior state's native token on one side of the transaction
TransitionSums ==
    {EmptySum} \cup {[t \in {NativeTokenID(FoundryOf(1, 1))} |-> n] : n \in Supplies}

\* the working sets of a transaction that consumes foundry 1 of alias 1 and
\* creates foundry 2 of that alias
TransitionWorkingSets ==
    [Outputs : {<<FoundryOf(1, 2)>>},
     InChains : {[alias |-> AliasChains(1, 0), foundry |-> {ID(FoundryOf(1, 1))}]},
     OutChains : {[alias |-> AliasChains(2, 0), foundry |-> {}]},
     InNativeTokens : TransitionSums,
     OutNativeTokens : TransitionSums]

\* values of ChainTransitionType that are none of the three declared ones
UnknownTransitionTypes == {"ChainTransitionType(3)", "ChainTransitionType(255)"}

\* the STVF of the foundry state f with the next state of its chain
ValidateStateChange(f, next) ==
    /\ verdict' = [transType |-> "ChainTransitionTypeStateChange", index |-> 0,
                   f |-> f, next |-> next, ids |-> NoIDs,
                   result |-> ValidateStateTransition(f, "ChainTransitionTypeStateChange", next, ws)]
    /\ UNCHANGED <<ws, builderVars, codecVars, apiVars>>

\* the STVF of the foundry state f that the transaction destroys; next is nil
ValidateDestroy(f) ==
    /\ verdict' = [transType |-> "ChainTransitionTypeDestroy", index |-> 0,
                   f |-> f, next |-> ExtendedOutput, ids |-> NoIDs,
                   result |-> ValidateStateTransition(f, "ChainTransitionTypeDestroy", ExtendedOutput, ws)]
    /\ UNCHANGED <<ws, builderVars, codecVars, apiVars>>

\* the STVF called with a transition type it does not know
ValidateUnknown(f, transType) ==
    /\ verdict' = [transType |-> transType, index |-> 0,
                   f |-> f, next |-> ExtendedOutput, ids |-> NoIDs,
                   result |-> ValidateStateTransition(f, transType, ExtendedOutput, ws)]
    /\ UNCHANGED <<ws, builderVars, codecVars, apiVars>>

-----------------------------------------------------------------------------
(* The foundries whose IDs are derived *)

\* serial numbers of one and of more than one significant byte, all four
\* bytes set in the greatest
SerialNumbers == {1, 2, 257, 65536, 2147483647}

IDFoundries ==
    {[FoundryOutput(a, s, t, c, 2, <<>>) EXCEPT !.TokenScheme = scheme] :
        a \in {1, 2}, s \in SerialNumbers, t \in {<<7>>, <<8>>}, c \in {1, 2},
        scheme \in {SimpleTokenScheme, OtherTokenScheme}}

\* two foundry outputs, held as the outputs of a transaction
FoundryPairs ==
    {[EmptyWorkingSet EXCEPT !.Outputs = <<f, g>>] : f \in IDFoundries, g \in IDFoundries}

\* f.ID(), g.ID(), f.ID().FoundrySerialNumber() and f.NativeTokenID() of two foundry outputs
DeriveIDs(f, g) ==
    /\ verdict' = [transType |-> "ID", index |-> 0, f |-> f, next |-> g, result |-> NoError,
                   ids |-> [f |-> ID(f), next |-> ID(g),
                            serial |-> FoundrySerialNumber(ID(f)),
                            token |-> NativeTokenID(f)]]
    /\ UNCHANGED <<ws, builderVars, codecVars, apiVars>>

-----------------------------------------------------------------------------
(* The binary codec: ReferenceUnlockBlock *)

\* byte slices handed to Deserialize are at most this long
MaxDataLen == 4

UnlockBlockSignature == 0

UnlockBlockReference == 1

SmallTypeDenotationByteSize == 1

UInt16ByteSize == 2

ReferenceUnlockBlockSize == SmallTypeDenotationByteSize + UInt16ByteSize

DeSeriModes == {"DeSeriModeNoValidation", "DeSeriModePerformValidation"}

\* deSeriMode.HasMode(serializer.DeSeriModePerformValidation)
HasModePerformValidation(deSeriMode) == deSeriMode = "DeSeriModePerformValidation"

\* binary.LittleEndian.PutUint16
LittleEndian16(n) == <<n % ByteRange, (n \div ByteRange) % ByteRange>>

\* binary.LittleEndian.Uint16, which panics on fewer than two bytes
LittleEndianUint16(bytes) == bytes[1] + bytes[2] * ByteRange

\* serializer.CheckMinByteLength
CheckMinByteLength(min, length) == IF length < min THEN "ErrDeserializationNotEnoughData" ELSE Nil

\* serializer.CheckTypeByte
CheckTypeByte(data, shouldType) ==
    IF Len(data) = 0 THEN "ErrDeserializationNotEnoughData"
    ELSE IF data[1] # shouldType THEN "ErrDeserializationTypeMismatch"
    ELSE Nil

\* mutant: the reference is written in big-endian order
ReferenceUnlockBlockSerialize_BigEndian(r) ==
    [data |-> <<UnlockBlockReference, (r.Reference \div ByteRange) % ByteRange, r.Reference % ByteRange>>,
     err |-> Nil]

\* ReferenceUnlockBlock.Serialize
ReferenceUnlockBlockSerialize(r) ==
    [data |-> <<UnlockBlockReference>> \o LittleEndian16(r.Reference), err |-> Nil]

\* ReferenceUnlockBlock.Deserialize; the slice expression data[1:] and
\* binary.LittleEndian.Uint16 panic when the slice is too short
ReferenceUnlockBlockDeserialize(data, deSeriMode) ==
    LET r == ReferenceUnlockBlock(0)
        tooShort == CheckMinByteLength(ReferenceUnlockBlockSize, Len(data))
        wrongType == CheckTypeByte(data, UnlockBlockReference)
    IN  IF HasModePerformValidation(deSeriMode) /\ tooShort # Nil
        THEN [n |-> 0, err |-> tooShort, value |-> r]
        ELSE IF HasModePerformValidation(deSeriMode) /\ wrongType # Nil
        THEN [n |-> 0, err |-> wrongType, value |-> r]
        ELSE IF Len(data) < SmallTypeDenotationByteSize
        THEN [n |-> 0, err |-> "panic", value |-> r]
        ELSE LET rest == SubSeq(data, SmallTypeDenotationByteSize + 1, Len(data))
             IN  IF Len(rest) < UInt16ByteSize
                 THEN [n |-> 0, err |-> "panic", value |-> r]
                 ELSE [n |-> ReferenceUnlockBlockSize, err |-> Nil,
                                    value |-> [r EXCEPT !.Reference = LittleEndianUint16(rest)]]

-----------------------------------------------------------------------------
(* The binary codec: the serializer and the rules of the FoundryOutput collections *)

OutputTreasury == 2

OutputFoundry == 5

UnlockConditionAddress == 0

UnlockConditionImmutableAlias == 6

FeatureBlockSender == 0

FeatureBlockMetadata == 2

UInt64ByteSize == 8

Uint256ByteSize == 32

TokenTagLength == 12

\* Serializer.WriteNum / WriteUint256: size bytes, little-endian, of a number below 2^31
WriteNum(n, size) ==
    [i \in 1..size |->
        IF i > UInt32ByteSize THEN 0
        ELSE IF i = 1 THEN n % ByteRange
        ELSE IF i = 2 THEN (n \div ByteRange) % ByteRange
        ELSE IF i = 3 THEN (n \div (ByteRange * ByteRange)) % ByteRange
        ELSE (n \div (ByteRange * ByteRange * ByteRange)) % ByteRange]

RECURSIVE NumberOf(_)
\* Deserializer.ReadNum / ReadUint256: the little-endian number of the bytes
NumberOf(bytes) == IF bytes = <<>> THEN 0 ELSE Head(bytes) + ByteRange * NumberOf(Tail(bytes))

NativeToken(id, amount) == [type |-> "NativeToken", ID |-> id, Amount |-> amount]

\* the type byte an unlock condition or a feature block is written with
TypeByte(e) ==
    CASE e.type = "ImmutableAliasUnlockCondition" -> UnlockConditionImmutableAlias
      [] e.type = "AddressUnlockCondition" -> UnlockConditionAddress
      [] e.type = "MetadataFeatureBlock" -> FeatureBlockMetadata
      [] e.type = "SenderFeatureBlock" -> FeatureBlockSender

\* Serialize of the element of a collection
ElementBytes(e) ==
    CASE e.type = "NativeToken" -> e.ID \o WriteNum(e.Amount, Uint256ByteSize)
      [] e.type = "MetadataFeatureBlock" -> <<TypeByte(e), Len(e.Data)>> \o e.Data
      [] OTHER -> <<TypeByte(e)>> \o AddressBytes(e.Address)

\* serializer.ArrayRules of foundryOutputUnlockCondsArrayRules
foundryOutputUnlockCondsArrayRules ==
    [Min |-> 1, Max |-> 1,
     MustOccur |-> {UnlockConditionImmutableAlias},
     ReadGuard |-> {UnlockConditionImmutableAlias},
     WriteGuard |-> {"ImmutableAliasUnlockCondition"},
     Family |-> "UnlockCondition"]

\* mutant: the write guard lets a sender feature block through
foundryOutputFeatBlockArrayRules_SenderWritable ==
    [Min |-> 0, Max |-> 1,
     MustOccur |-> {},
     ReadGuard |-> {FeatureBlockMetadata},
     WriteGuard |-> {"MetadataFeatureBlock", "SenderFeatureBlock"},
     Family |-> "FeatureBlock"]

\* serializer.ArrayRules of foundryOutputFeatBlockArrayRules
foundryOutputFeatBlockArrayRules ==
    [Min |-> 0, Max |-> 1,
     MustOccur |-> {},
     ReadGuard |-> {FeatureBlockMetadata},
     WriteGuard |-> {"MetadataFeatureBlock"},
     Family |-> "FeatureBlock"]

\* serializer.ArrayRules of foundryOutputImmFeatBlockArrayRules
foundryOutputImmFeatBlockArrayRules ==
    [Min |-> 0, Max |-> 1,
     MustOccur |-> {},
     ReadGuard |-> {FeatureBlockMetadata},
     WriteGuard |-> {"MetadataFeatureBlock"},
     Family |-> "FeatureBlock"]

\* nativeTokensArrayRules, as far as the foundry output needs them: any number of native tokens
nativeTokensArrayRules ==
    [Min |-> 0, Max |-> 255, MustOccur |-> {}, ReadGuard |-> {}, WriteGuard |-> {"NativeToken"},
     Family |-> "NativeToken"]

\* ArrayRules.CheckBounds, the must-occur check and the at-most-one-of-each-type
\* check on the type bytes of the elements of a collection
CheckArrayRules(rules, elements) ==
    LET typeBytes == IF rules.Family = "NativeToken" THEN <<>>
                     ELSE [i \in 1..Len(elements) |-> TypeByte(elements[i])]
    IN  IF Len(elements) < rules.Min THEN "ErrArrayValidationMinElementsNotReached"
        ELSE IF Len(elements) > rules.Max THEN "ErrArrayValidationMaxElementsExceeded"
        ELSE IF \E ty \in rules.MustOccur : \A i \in 1..Len(typeBytes) : typeBytes[i] # ty
            THEN "ErrArrayValidationTypesNotOccurred"
        ELSE IF \E i, j \in 1..Len(typeBytes) : i < j /\ typeBytes[i] = typeBytes[j]
            THEN "ErrArrayValidationViolatesUniqueness"
        ELSE Nil

RECURSIVE Concat(_)
Concat(seqs) == IF seqs = <<>> THEN <<>> ELSE Head(seqs) \o Concat(Tail(seqs))

\* Serializer.WriteSliceOfObjects with a one-byte length prefix: with
\* validation, the write guard and the array rules come first
WriteSliceOfObjects(elements, deSeriMode, rules) ==
    LET guarded == \E i \in 1..Len(elements) : elements[i].type \notin rules.WriteGuard
        broken == CheckArrayRules(rules, elements)
        data == <<Len(elements)>> \o Concat([i \in 1..Len(elements) |-> ElementBytes(elements[i])])
    IN  IF HasModePerformValidation(deSeriMode) /\ guarded
        THEN [data |-> <<>>, err |-> "ErrUnsupportedType"]
        ELSE IF HasModePerformValidation(deSeriMode) /\ broken # Nil
        THEN [data |-> <<>>, err |-> broken]
        ELSE [data |-> data, err |-> Nil]

\* the element of a collection at the head of data; the read guard selects
\* the element by its type byte
ReadElement(data, rules) ==
    LET idLen == AliasAddressSerializedBytesSize + UInt32ByteSize + 1 + TokenTagLength
        failed(err) == [data |-> data, err |-> err, value |-> Nil]
        read(n, value) == [data |-> SubSeq(data, n + 1, Len(data)), err |-> Nil, value |-> value]
    IN  IF rules.Family = "NativeToken"
        THEN IF Len(data) < idLen + Uint256ByteSize THEN failed("ErrDeserializationNotEnoughData")
             ELSE read(idLen + Uint256ByteSize,
                       NativeToken(SubSeq(data, 1, idLen),
                                   NumberOf(SubSeq(data, idLen + 1, idLen + Uint256ByteSize))))
        ELSE IF Len(data) < SmallTypeDenotationByteSize THEN failed("ErrDeserializationNotEnoughData")
        ELSE IF data[1] \notin rules.ReadGuard THEN failed("ErrUnsupportedType")
        ELSE IF rules.Family = "UnlockCondition"
        THEN IF Len(data) < 1 + AliasAddressSerializedBytesSize THEN failed("ErrDeserializationNotEnoughData")
             ELSE read(1 + AliasAddressSerializedBytesSize,
                       ImmutableAliasUnlockCondition(AliasAddress(data[2])))
        ELSE IF Len(data) < 2 \/ Len(data) < 2 + data[2] THEN failed("ErrDeserializationNotEnoughData")
             ELSE read(2 + data[2], [type |-> "MetadataFeatureBlock", Data |-> SubSeq(data, 3, 2 + data[2])])

RECURSIVE ReadElements(_, _, _, _)
\* count elements from data on, appended to those already read
ReadElements(data, count, rules, sofar) ==
    IF count = 0 THEN [data |-> data, err |-> Nil, value |-> sofar]
    ELSE LET e == ReadElement(data, rules)
         IN  IF e.err # Nil THEN [data |-> data, err |-> e.err, value |-> sofar]
             ELSE ReadElements(e.data, count - 1, rules, Append(sofar, e.value))

\* Deserializer.ReadSliceOfObjects with a one-byte length prefix: with
\* validation, the array rules are checked on what was read
ReadSliceOfObjects(data, deSeriMode, rules) ==
    IF Len(data) < 1 THEN [data |-> data, err |-> "ErrDeserializationNotEnoughData", value |-> <<>>]
    ELSE LET read == ReadElements(Tail(data), data[1], rules, <<>>)
             broken == CheckArrayRules(rules, read.value)
         IN  IF read.err # Nil THEN read
             ELSE IF HasModePerformValidation(deSeriMode) /\ broken # Nil
             THEN [data |-> read.data, err |-> broken, value |-> read.value]
             ELSE read

-----------------------------------------------------------------------------
(* The binary codec: FoundryOutput and TreasuryOutput *)

\* a FoundryOutput with all the fields of the struct
FullFoundryOutput(f, amount, nativeTokens, blocks) ==
    [type |-> "FoundryOutput",
     Amount |-> amount,
     NativeTokens |-> nativeTokens,
     SerialNumber |-> f.SerialNumber,
     TokenTag |-> f.TokenTag,
     CirculatingSupply |-> f.CirculatingSupply,
     MaximumSupply |-> f.MaximumSupply,
     TokenScheme |-> f.TokenScheme,
     Conditions |-> f.Conditions,
     Blocks |-> blocks,
     ImmutableBlocks |-> f.ImmutableBlocks]

\* the receiver Deserialize is called on: &FoundryOutput{}
ZeroFoundryOutput ==
    [type |-> "FoundryOutput",
     Amount |-> 0,
     NativeTokens |-> <<>>,
     SerialNumber |-> 0,
     TokenTag |-> [i \in 1..TokenTagLength |-> 0],
     CirculatingSupply |-> 0,
     MaximumSupply |-> 0,
     TokenScheme |-> [type |-> -1],
     Conditions |-> <<>>,
     Blocks |-> <<>>,
     ImmutableBlocks |-> <<>>]

\* the order of the Write calls of FoundryOutput.Serialize
FoundrySerializeOrder ==
    <<"OutputFoundry", "Amount", "NativeTokens", "SerialNumber", "TokenTag", "CirculatingSupply",
      "MaximumSupply", "TokenScheme", "Conditions", "Blocks", "ImmutableBlocks">>

\* mutant: the two supplies are read in the other order
FoundryDeserializeOrder_SuppliesSwapped ==
    <<"OutputFoundry", "Amount", "NativeTokens", "SerialNumber", "TokenTag", "MaximumSupply",
      "CirculatingSupply", "TokenScheme", "Conditions", "Blocks", "ImmutableBlocks">>

\* the order of the Read calls of FoundryOutput.Deserialize
FoundryDeserializeOrder ==
    <<"OutputFoundry", "Amount", "NativeTokens", "SerialNumber", "TokenTag", "CirculatingSupply",
      "MaximumSupply", "TokenScheme", "Conditions", "Blocks", "ImmutableBlocks">>

\* the array rules the collection fields are written and read with
FoundryArrayRules(field) ==
    CASE field = "NativeTokens" -> nativeTokensArrayRules
      [] field = "Conditions" -> foundryOutputUnlockCondsArrayRules
      [] field = "Blocks" -> foundryOutputFeatBlockArrayRules
      [] field = "ImmutableBlocks" -> foundryOutputImmFeatBlockArrayRules

\* the number fields and their byte sizes
FoundryNumSize ==
    [Amount |-> UInt64ByteSize, SerialNumber |-> UInt32ByteSize,
     CirculatingSupply |-> Uint256ByteSize, MaximumSupply |-> Uint256ByteSize]

\* one Write call of FoundryOutput.Serialize
WriteFoundryField(f, field, deSeriMode) ==
    IF field = "OutputFoundry" THEN [data |-> <<OutputFoundry>>, err |-> Nil]
    ELSE IF field \in DOMAIN FoundryNumSize THEN [data |-> WriteNum(f[field], FoundryNumSize[field]), err |-> Nil]
    ELSE IF field = "TokenTag" THEN [data |-> f.TokenTag, err |-> Nil]
    ELSE IF field = "TokenScheme"
        THEN IF HasModePerformValidation(deSeriMode) /\ f.TokenScheme # SimpleTokenScheme
             THEN [data |-> <<>>, err |-> "ErrUnsupportedTokenSchemeType"]
             ELSE [data |-> <<f.TokenScheme.type>>, err |-> Nil]
    ELSE WriteSliceOfObjects(f[field], deSeriMode, FoundryArrayRules(field))

RECURSIVE WriteFoundryFields(_, _, _, _)
\* the chain of Write calls from the i-th on: the first error ends it
WriteFoundryFields(f, order, i, deSeriMode) ==
    IF i > Len(order) THEN [data |-> <<>>, err |-> Nil]
    ELSE LET written == WriteFoundryField(f, order[i], deSeriMode)
             rest == WriteFoundryFields(f, order, i + 1, deSeriMode)
         IN  IF written.err # Nil THEN written
             ELSE IF rest.err # Nil THEN rest
             ELSE [data |-> written.data \o rest.data, err |-> Nil]

\* FoundryOutput.Serialize
FoundryOutputSerialize(f, deSeriMode) == WriteFoundryFields(f, FoundrySerializeOrder, 1, deSeriMode)

\* one Read call of FoundryOutput.Deserialize
ReadFoundryField(st, field, deSeriMode) ==
    IF field = "OutputFoundry"
    THEN IF Len(st.data) < SmallTypeDenotationByteSize THEN [st EXCEPT !.err = "ErrDeserializationNotEnoughData"]
         ELSE IF st.data[1] # OutputFoundry THEN [st EXCEPT !.err = "ErrDeserializationTypeMismatch"]
         ELSE [st EXCEPT !.data = Tail(st.data)]
    ELSE IF field \in DOMAIN FoundryNumSize
    THEN LET size == FoundryNumSize[field]
         IN  IF Len(st.data) < size THEN [st EXCEPT !.err = "ErrDeserializationNotEnoughData"]
             ELSE [data |-> SubSeq(st.data, size + 1, Len(st.data)), err |-> Nil,
                   value |-> [st.value EXCEPT ![field] = NumberOf(SubSeq(st.data, 1, size))]]
    ELSE IF field = "TokenTag"
    THEN IF Len(st.data) < TokenTagLength THEN [st EXCEPT !.err = "ErrDeserializationNotEnoughData"]
         ELSE [data |-> SubSeq(st.data, TokenTagLength + 1, Len(st.data)), err |-> Nil,
               value |-> [st.value EXCEPT !.TokenTag = SubSeq(st.data, 1, TokenTagLength)]]
    ELSE IF field = "TokenScheme"
    THEN IF Len(st.data) < SmallTypeDenotationByteSize THEN [st EXCEPT !.err = "ErrDeserializationNotEnoughData"]
         ELSE IF st.data[1] # SimpleTokenScheme.type THEN [st EXCEPT !.err = "ErrUnknownTokenSchemeType"]
         ELSE [data |-> Tail(st.data), err |-> Nil, value |-> [st.value EXCEPT !.TokenScheme = SimpleTokenScheme]]
    ELSE LET read == ReadSliceOfObjects(st.data, deSeriMode, FoundryArrayRules(field))
         IN  IF read.err # Nil THEN [st EXCEPT !.err = read.err]
             ELSE [data |-> read.data, err |-> Nil, value |-> [st.value EXCEPT ![field] = read.value]]

RECURSIVE ReadFoundryFields(_, _, _, _)
\* the chain of Read calls from the i-th on: after an error nothing is read
ReadFoundryFields(st, order, i, deSeriMode) ==
    IF i > Len(order) \/ st.err # Nil THEN st
    ELSE ReadFoundryFields(ReadFoundryField(st, order[i], deSeriMode), order, i + 1, deSeriMode)

\* FoundryOutput.Deserialize: Done returns the number of bytes read
FoundryOutputDeserialize(data, deSeriMode) ==
    LET st == ReadFoundryFields([data |-> data, err |-> Nil, value |-> ZeroFoundryOutput],
                                FoundryDeserializeOrder, 1, deSeriMode)
    IN  IF st.err # Nil THEN [n |-> 0, err |-> st.err, value |-> st.value]
        ELSE [n |-> Len(data) - Len(st.data), err |-> Nil, value |-> st.value]

TreasuryOutput(amount) == [type |-> "TreasuryOutput", Amount |-> amount]

\* the encoding of a TreasuryOutput: the output type, then the amount
TreasuryOutputSerialize(t) ==
    [data |-> <<OutputTreasury>> \o WriteNum(t.Amount, UInt64ByteSize), err |-> Nil]

\* the decoding of a TreasuryOutput
TreasuryOutputDeserialize(data, deSeriMode) ==
    IF Len(data) < SmallTypeDenotationByteSize + UInt64ByteSize
    THEN [n |-> 0, err |-> "ErrDeserializationNotEnoughData", value |-> TreasuryOutput(0)]
    ELSE IF data[1] # OutputTreasury
    THEN [n |-> 0, err |-> "ErrDeserializationTypeMismatch", value |-> TreasuryOutput(0)]
    ELSE [n |-> SmallTypeDenotationByteSize + UInt64ByteSize, err |-> Nil,
          value |-> TreasuryOutput(NumberOf(SubSeq(data, 2, 1 + UInt64ByteSize)))]

-----------------------------------------------------------------------------
(* The JSON codec: the selector of the unlock block objects *)

\* the conversion byte(ty) of an int: its lowest eight bits
Byte(ty) == ty % ByteRange

jsonUnlockBlockSelector(ty) ==
    CASE Byte(ty) = UnlockBlockSignature -> [obj |-> "jsonSignatureUnlockBlock", err |-> Nil]
      [] Byte(ty) = UnlockBlockReference -> [obj |-> "jsonReferenceUnlockBlock", err |-> Nil]
      [] OTHER -> [obj |-> Nil, err |-> "ErrUnknownUnlockBlockType"]

-----------------------------------------------------------------------------
(* What the codec is applied to *)

MaxElements == 2

\* the "type" values run from -MaxJSONType to MaxJSONType
MaxJSONType == 600

\* what is serialized and read back: every ReferenceUnlockBlock there is;
\* valid foundry outputs with and without native tokens and feature blocks,
\* supplies that differ from each other, numbers of one and of several bytes;
\* treasury outputs
RoundTripSubjects ==
    LET TokenTagOf(b) == [i \in 1..TokenTagLength |-> IF i = 1 THEN b ELSE i]
        ReferenceUnlockBlocks == {ReferenceUnlockBlock(n) : n \in 0..(Uint16Range - 1)}
        CodecFoundryOutputs ==
            {FullFoundryOutput(FoundryOutput(1, serial, TokenTagOf(7), circulating, maximum, immutableBlocks),
                               amount, nativeTokens, blocks) :
                serial \in {1, 257}, circulating \in {1, 300}, maximum \in {300, 70000},
                immutableBlocks \in {<<>>, <<MetadataFeatureBlock>>},
                amount \in {0, 1000000},
                nativeTokens \in {<<>>, <<NativeToken(NativeTokenID(FoundryOutput(2, 3, TokenTagOf(8), 1, 2, <<>>)), 5)>>},
                blocks \in {<<>>, <<MetadataFeatureBlock>>}}
        TreasuryOutputs == {TreasuryOutput(amount) : amount \in {0, 1, 256, 65537, 2147483647}}
    IN  {[op |-> "RoundTrip", value |-> x, deSeriMode |-> mode] :
            x \in ReferenceUnlockBlocks \cup CodecFoundryOutputs \cup TreasuryOutputs,
            mode \in DeSeriModes}

\* the byte slices of up to MaxDataLen bytes Deserialize is given
DeserializeSubjects ==
    LET ByteSlices == UNION {[1..n -> {0, 1, 255}] : n \in 0..MaxDataLen}
    IN  {[op |-> "Deserialize", data |-> data, deSeriMode |-> mode] :
            data \in ByteSlices, mode \in DeSeriModes}

\* a collection of up to MaxElements elements offered for one of the three
\* collection fields of a FoundryOutput
CollectionSubjects ==
    LET UnlockConditions ==
            {ImmutableAliasUnlockCondition(AliasAddress(1)), ImmutableAliasUnlockCondition(AliasAddress(2)),
             [type |-> "AddressUnlockCondition", Address |-> AliasAddress(1)]}
        FeatureBlocks ==
            {MetadataFeatureBlock, [type |-> "MetadataFeatureBlock", Data |-> <<2, 3>>],
             [type |-> "SenderFeatureBlock", Address |-> AliasAddress(1)]}
        SequencesOf(S) == UNION {[1..n -> S] : n \in 0..MaxElements}
    IN  {[op |-> "Collection", field |-> "Conditions", elements |-> elements] :
            elements \in SequencesOf(UnlockConditions)}
        \cup {[op |-> "Collection", field |-> field, elements |-> elements] :
            field \in {"Blocks", "ImmutableBlocks"}, elements \in SequencesOf(FeatureBlocks)}

\* the value of the "type" field of a JSON unlock block
SelectSubjects == {[op |-> "Select", ty |-> ty] : ty \in (-MaxJSONType)..MaxJSONType}

NoOutcome == [op |-> "none"]

CodecIdle ==
    /\ subject = [op |-> "none"]
    /\ outcome = NoOutcome

\* Serialize, then Deserialize of what it produced into a new ReferenceUnlockBlock
RoundTripReferenceUnlockBlock ==
    /\ subject.op = "RoundTrip"
    /\ subject.value.type = "ReferenceUnlockBlock"
    /\ outcome = NoOutcome
    /\ LET serialized == ReferenceUnlockBlockSerialize(subject.value)
       IN  outcome' = [op |-> "RoundTrip", serialized |-> serialized,
                       deserialized |-> ReferenceUnlockBlockDeserialize(serialized.data, subject.deSeriMode)]
    /\ UNCHANGED <<subject, builderVars, foundryVars, apiVars>>

\* Serialize, then Deserialize of what it produced into a new FoundryOutput
RoundTripFoundryOutput ==
    /\ subject.op = "RoundTrip"
    /\ subject.value.type = "FoundryOutput"
    /\ outcome = NoOutcome
    /\ LET serialized == FoundryOutputSerialize(subject.value, subject.deSeriMode)
       IN  outcome' = [op |-> "RoundTrip", serialized |-> serialized,
                       deserialized |-> FoundryOutputDeserialize(serialized.data, subject.deSeriMode)]
    /\ UNCHANGED <<subject, builderVars, foundryVars, apiVars>>

\* Serialize, then Deserialize of what it produced into a new TreasuryOutput
RoundTripTreasuryOutput ==
    /\ subject.op = "RoundTrip"
    /\ subject.value.type = "TreasuryOutput"
    /\ outcome = NoOutcome
    /\ LET serialized == TreasuryOutputSerialize(subject.value)
       IN  outcome' = [op |-> "RoundTrip", serialized |-> serialized,
                       deserialized |-> TreasuryOutputDeserialize(serialized.data, subject.deSeriMode)]
    /\ UNCHANGED <<subject, builderVars, foundryVars, apiVars>>

\* a collection field of a FoundryOutput on encode with validation, and its
\* bytes on decode with validation
WriteAndReadCollection ==
    /\ subject.op = "Collection"
    /\ outcome = NoOutcome
    /\ LET rules == FoundryArrayRules(subject.field)
           wire == WriteSliceOfObjects(subject.elements, "DeSeriModeNoValidation", rules)
       IN  outcome' = [op |-> "Collection",
                       written |-> WriteSliceOfObjects(subject.elements, "DeSeriModePerformValidation", rules),
                       read |-> ReadSliceOfObjects(wire.data, "DeSeriModePerformValidation", rules)]
    /\ UNCHANGED <<subject, builderVars, foundryVars, apiVars>>

\* the JSON decoder asks the selector for the object of a "type" value
SelectJSONUnlockBlock ==
    /\ subject.op = "Select"
    /\ outcome = NoOutcome
    /\ outcome' = [op |-> "Select", selected |-> jsonUnlockBlockSelector(subject.ty)]
    /\ UNCHANGED <<subject, builderVars, foundryVars, apiVars>>

\* Deserialize of a byte slice into a new ReferenceUnlockBlock
DeserializeReferenceUnlockBlock ==
    /\ subject.op = "Deserialize"
    /\ outcome = NoOutcome
    /\ outcome' = [op |-> "Deserialize",
                   deserialized |-> ReferenceUnlockBlockDeserialize(subject.data, subject.deSeriMode)]
    /\ UNCHANGED <<subject, builderVars, foundryVars, apiVars>>

-----------------------------------------------------------------------------
(* The internal API *)

\* at most this many calls of internalEncode, internalDecode and SwapInternalAPI
MaxGoroutines == 3

Goroutines == 1..MaxGoroutines

\* init: _internalAPI = V3API(&ProtocolParameters{})
V3API == [api |-> "V3API(&ProtocolParameters{})", of |-> 0]

\* the API goroutine g calls SwapInternalAPI with: every caller brings its own
NewAPI(g) == [api |-> "newAPI", of |-> g]

\* sync.RWMutex{}: readers hold it for reading, readerSem are the readers a
\* writer keeps waiting, w is the goroutine that called Lock (0: none)
UnlockedRWMutex == [readers |-> {}, readerSem |-> {}, w |-> 0]

\* a call that has not been made. api is the API the call uses, used its
\* position among the APIs installed so far, since the position of the API of
\* the last SwapInternalAPI that had returned when the call was made
NotCalled ==
    [pc |-> "not called", op |-> Nil, newAPI |-> [api |-> Nil, of |-> 0], api |-> [api |-> Nil, of |-> 0],
     since |-> 0, used |-> 0, err |-> Nil]

\* the position of the API installed by the last SwapInternalAPI that has returned
LastReturnedSwap ==
    LET returnedSwaps == {g \in Goroutines :
                             goroutines[g].op = "SwapInternalAPI" /\ goroutines[g].pc = "done"}
        positions == {1} \cup {goroutines[g].used : g \in returnedSwaps}
    IN  CHOOSE n \in positions : \A m \in positions : m <= n

\* a goroutine calls internalEncode or internalDecode
CallInternal(g, op) ==
    /\ goroutines[g].pc = "not called"
    /\ goroutines' = [goroutines EXCEPT ![g] = [NotCalled EXCEPT !.pc = "RLock", !.op = op,
                                                                !.since = LastReturnedSwap]]
    /\ UNCHANGED <<internalAPI, internalAPIMu, installed, builderVars, foundryVars, codecVars>>

\* a goroutine calls SwapInternalAPI(newAPI)
CallSwapInternalAPI(g) ==
    /\ goroutines[g].pc = "not called"
    /\ goroutines' = [goroutines EXCEPT ![g] = [NotCalled EXCEPT !.pc = "Lock", !.op = "SwapInternalAPI",
                                                                !.newAPI = NewAPI(g),
                                                                !.since = LastReturnedSwap]]
    /\ UNCHANGED <<internalAPI, internalAPIMu, installed, builderVars, foundryVars, codecVars>>

\* _internalAPIMu.RLock(): the reader holds the lock at once unless a writer
\* has called Lock; then it waits until that writer unlocks
RLock(g) ==
    /\ goroutines[g].pc = "RLock"
    /\ IF internalAPIMu.w = 0
       THEN /\ internalAPIMu' = [internalAPIMu EXCEPT !.readers = @ \cup {g}]
            /\ goroutines' = [goroutines EXCEPT ![g].pc = "RLocked"]
       ELSE /\ internalAPIMu' = [internalAPIMu EXCEPT !.readerSem = @ \cup {g}]
            /\ goroutines' = [goroutines EXCEPT ![g].pc = "RLock blocked"]
    /\ UNCHANGED <<internalAPI, installed, builderVars, foundryVars, codecVars>>

\* _internalAPI.Encode(...) / _internalAPI.Decode(...): the global is read and its method called
UseInternalAPI(g) ==
    /\ goroutines[g].pc = "RLocked"
    /\ goroutines' = [goroutines EXCEPT ![g].pc = "in API", ![g].api = internalAPI,
                                        ![g].used = Len(installed)]
    /\ UNCHANGED <<internalAPI, internalAPIMu, installed, builderVars, foundryVars, codecVars>>

\* the API's Encode or Decode ends: with a result, with an error, or with a panic
ReturnFromAPI(g, err) ==
    /\ goroutines[g].pc = "in API"
    /\ goroutines' = [goroutines EXCEPT ![g].pc = "RUnlock", ![g].err = err]
    /\ UNCHANGED <<internalAPI, internalAPIMu, installed, builderVars, foundryVars, codecVars>>

\* mutant: the lock is released only when the API returned no error
RUnlock_OnlyOnSuccess(g) ==
    /\ goroutines[g].pc = "RUnlock"
    /\ internalAPIMu' = IF goroutines[g].err = Nil
                        THEN [internalAPIMu EXCEPT !.readers = @ \ {g}]
                        ELSE internalAPIMu
    /\ goroutines' = [goroutines EXCEPT ![g].pc = "done"]
    /\ UNCHANGED <<internalAPI, installed, builderVars, foundryVars, codecVars>>

\* defer _internalAPIMu.RUnlock(): runs when the function returns or panics
RUnlock(g) ==
    /\ goroutines[g].pc = "RUnlock"
    /\ internalAPIMu' = [internalAPIMu EXCEPT !.readers = @ \ {g}]
    /\ goroutines' = [goroutines EXCEPT ![g].pc = "done"]
    /\ UNCHANGED <<internalAPI, installed, builderVars, foundryVars, codecVars>>

\* mutant: Lock returns although readers hold the lock
Lock_NoWait(g) ==
    /\ goroutines[g].pc = "Lock"
    /\ internalAPIMu.w = 0
    /\ internalAPIMu' = [internalAPIMu EXCEPT !.w = g]
    /\ goroutines' = [goroutines EXCEPT ![g].pc = "Locked"]
    /\ UNCHANGED <<internalAPI, installed, builderVars, foundryVars, codecVars>>

\* _internalAPIMu.Lock(): one writer at a time; from now on new readers wait,
\* and the writer waits for the readers that hold the lock
Lock(g) ==
    /\ goroutines[g].pc = "Lock"
    /\ internalAPIMu.w = 0
    /\ internalAPIMu' = [internalAPIMu EXCEPT !.w = g]
    /\ goroutines' = [goroutines EXCEPT ![g].pc = IF internalAPIMu.readers = {} THEN "Locked"
                                                  ELSE "Lock blocked"]
    /\ UNCHANGED <<internalAPI, installed, builderVars, foundryVars, codecVars>>

\* Lock returns when the last reader has left
LockAcquired(g) ==
    /\ goroutines[g].pc = "Lock blocked"
    /\ internalAPIMu.readers = {}
    /\ goroutines' = [goroutines EXCEPT ![g].pc = "Locked"]
    /\ UNCHANGED <<internalAPI, internalAPIMu, installed, builderVars, foundryVars, codecVars>>

\* _internalAPI = newAPI
AssignInternalAPI(g) ==
    /\ goroutines[g].pc = "Locked"
    /\ internalAPI' = goroutines[g].newAPI
    /\ installed' = Append(installed, goroutines[g].newAPI)
    /\ goroutines' = [goroutines EXCEPT ![g].pc = "Unlock", ![g].used = Len(installed) + 1]
    /\ UNCHANGED <<internalAPIMu, builderVars, foundryVars, codecVars>>

\* defer _internalAPIMu.Unlock(): the readers that waited hold the lock now
Unlock(g) ==
    /\ goroutines[g].pc = "Unlock"
    /\ internalAPIMu' = [readers |-> internalAPIMu.readerSem, readerSem |-> {}, w |-> 0]
    /\ goroutines' = [h \in Goroutines |->
                          IF h = g THEN [goroutines[h] EXCEPT !.pc = "done"]
                          ELSE IF h \in internalAPIMu.readerSem THEN [goroutines[h] EXCEPT !.pc = "RLocked"]
                          ELSE goroutines[h]]
    /\ UNCHANGED <<internalAPI, installed, builderVars, foundryVars, codecVars>>

\* what a goroutine that has made its call does next
Proceed(g) ==
    \/ RLock(g)
    \/ UseInternalAPI(g)
    \/ \E err \in {Nil, "error", "panic"} : ReturnFromAPI(g, err)
    \/ RUnlock(g)
    \/ Lock(g)
    \/ LockAcquired(g)
    \/ AssignInternalAPI(g)
    \/ Unlock(g)

APIIdle ==
    /\ internalAPI = V3API
    /\ internalAPIMu = UnlockedRWMutex
    /\ goroutines = [g \in Goroutines |-> NotCalled]
    /\ installed = <<V3API>>

-----------------------------------------------------------------------------
(* The state machines *)

BuilderInit ==
    /\ NewSignedTransactionBuilder
    /\ addedInputs = <<>>
    /\ addedOutputs = <<>>
    /\ givenPayload = Nil
    /\ last = NoResult("New")
    /\ calls = 0
    /\ builds = 0
    /\ returned = <<>>

\* the builder, with no validation going on
Init ==
    /\ BuilderInit
    /\ ws = EmptyWorkingSet
    /\ verdict = NoVerdict
    /\ CodecIdle
    /\ APIIdle

Next ==
    \/ \E input \in ToBeSignedInputs : AddInput(input)
    \/ \E bytes \in OutputBytes : AddOutput(bytes)
    \/ \E payload \in IndexationPayloads : AddIndexationPayload(payload)
    \/ \E signer \in 0..Len(unsigTx.Inputs) : Build(signer, FALSE)
    \/ Build(0, TRUE)

Spec == Init /\ [][Next]_vars

\* the foundry validation applied to the working sets, with an idle builder
InitFoundry ==
    /\ BuilderInit
    /\ ws \in WorkingSets
    /\ verdict = NoVerdict
    /\ CodecIdle
    /\ APIIdle

NextFoundry ==
    \/ \E i \in 1..Len(ws.Outputs) : ValidateGenesis(i)
    \/ ValidateGenesisOfEveryNew

SpecFoundry == InitFoundry /\ [][NextFoundry]_vars

\* the foundry validation of every transition type, with an idle builder
InitTransition ==
    /\ BuilderInit
    /\ ws \in TransitionWorkingSets
    /\ verdict = NoVerdict
    /\ CodecIdle
    /\ APIIdle

NextTransition ==
    \/ \E i \in 1..Len(ws.Outputs) : ValidateGenesis(i)
    \/ \E f \in PriorStates, next \in NextStates : ValidateStateChange(f, next)
    \/ \E f \in PriorStates : ValidateDestroy(f)
    \/ \E f \in PriorStates, transType \in UnknownTransitionTypes : ValidateUnknown(f, transType)

SpecTransition == InitTransition /\ [][NextTransition]_vars

\* the derivation of the FoundryIDs of two foundry outputs, with an idle builder
InitFoundryID ==
    /\ BuilderInit
    /\ ws \in FoundryPairs
    /\ verdict = NoVerdict
    /\ CodecIdle
    /\ APIIdle

NextFoundryID == DeriveIDs(ws.Outputs[1], ws.Outputs[2])

SpecFoundryID == InitFoundryID /\ [][NextFoundryID]_vars

\* the codec applied to values and byte slices, with everything else idle
InitCodec ==
    /\ BuilderInit
    /\ ws = EmptyWorkingSet
    /\ verdict = NoVerdict
    /\ subject \in RoundTripSubjects \cup DeserializeSubjects \cup CollectionSubjects \cup SelectSubjects
    /\ outcome = NoOutcome
    /\ APIIdle

NextCodec ==
    \/ RoundTripReferenceUnlockBlock
    \/ RoundTripFoundryOutput
    \/ RoundTripTreasuryOutput
    \/ WriteAndReadCollection
    \/ SelectJSONUnlockBlock
    \/ DeserializeReferenceUnlockBlock

SpecCodec == InitCodec /\ [][NextCodec]_vars

\* calls of internalEncode, internalDecode and SwapInternalAPI from concurrent goroutines
InitAPI ==
    /\ BuilderInit
    /\ ws = EmptyWorkingSet
    /\ verdict = NoVerdict
    /\ CodecIdle
    /\ APIIdle

NextAPI ==
    \/ \E g \in Goroutines, op \in {"internalEncode", "internalDecode"} : CallInternal(g, op)
    \/ \E g \in Goroutines : CallSwapInternalAPI(g)
    \/ \E g \in Goroutines : RLock(g)
    \/ \E g \in Goroutines : UseInternalAPI(g)
    \/ \E g \in Goroutines, err \in {Nil, "error", "panic"} : ReturnFromAPI(g, err)
    \/ \E g \in Goroutines : RUnlock(g)
    \/ \E g \in Goroutines : Lock(g)
    \/ \E g \in Goroutines : LockAcquired(g)
    \/ \E g \in Goroutines : AssignInternalAPI(g)
    \/ \E g \in Goroutines : Unlock(g)

SpecAPI == InitAPI /\ [][NextAPI]_vars

\* the Go scheduler runs every goroutine that can run, and the RWMutex wakes
\* the goroutines it kept waiting: a call that was made goes on
SpecAPIFair == SpecAPI /\ \A g \in Goroutines : WF_vars(Proceed(g))

-----------------------------------------------------------------------------
(* What the claims speak about *)

\* a Build call has just returned a payload and no error
Built == last.op = "Build" /\ last.err = "none"

\* the owner address Build resolves for the input at (1-based) position i
OwnerOf(i) == inputToAddr[unsigTx.Inputs[i].bytes]

Owners == {OwnerOf(i) : i \in 1..Len(unsigTx.Inputs)}

IsSignatureBlock(blk) == blk.type = "SignatureUnlockBlock"

IsReferenceBlock(blk) == blk.type = "ReferenceUnlockBlock"

\* the positions at which seq holds an element satisfying the test
SignaturePositions(blocks) == {i \in 1..Len(blocks) : IsSignatureBlock(blocks[i])}

SignCallsFor(addr) == {k \in 1..Len(last.signCalls) : last.signCalls[k].addr = addr}

\* seq has no element of lower bytes after one of higher bytes
InLexicalOrder(seq) == \A i, j \in 1..Len(seq) : i < j => seq[i].bytes <= seq[j].bytes

Occurrences(seq, x) == Cardinality({i \in 1..Len(seq) : seq[i] = x})

Elements(seq) == {seq[i] : i \in 1..Len(seq)}

\* a and b hold the same elements the same number of times
IsPermutationOf(a, b) ==
    /\ Len(a) = Len(b)
    /\ \A x \in Elements(a) \cup Elements(b) : Occurrences(a, x) = Occurrences(b, x)

PositionIn(seq, x) == CHOOSE i \in 1..Len(seq) : seq[i] = x

\* byte-identical elements of post stand in the relative order they had in pre
KeepsOrderOfEquals(pre, post) ==
    \A i, j \in 1..Len(post) :
        (i < j /\ post[i].bytes = post[j].bytes) => PositionIn(pre, post[i]) < PositionIn(pre, post[j])

\* the objects AddInput was given, in call order
AddedInputObjects == [k \in 1..Len(addedInputs) |-> Obj(k, addedInputs[k].Input)]

\* the address given with the last AddInput call for the input id
LastAddressGiven(id) ==
    LET ks == {k \in 1..Len(addedInputs) : addedInputs[k].Input = id}
    IN  addedInputs[CHOOSE k \in ks : \A m \in ks : m <= k].Address

-----------------------------------------------------------------------------
(* C1..C9: SignedTransactionPayloadBuilder *)

\* C1: after a successful Build the unlock blocks hold exactly one
\* SignatureUnlockBlock per distinct owner address of the inputs and a
\* ReferenceUnlockBlock for every other input, and signer.Sign was called
\* exactly once per distinct owner address.
C1_OneSignaturePerAddress ==
    Built =>
        LET blocks == last.payload.UnlockBlocks
        IN  /\ Len(blocks) = Len(unsigTx.Inputs)
            /\ \A i \in 1..Len(blocks) : IsSignatureBlock(blocks[i]) \/ IsReferenceBlock(blocks[i])
            /\ Cardinality(SignaturePositions(blocks)) = Cardinality(Owners)
            /\ \A a \in Owners :
                 /\ Cardinality({i \in SignaturePositions(blocks) : OwnerOf(i) = a}) = 1
                 /\ Cardinality(SignCallsFor(a)) = 1
            /\ Len(last.signCalls) = Cardinality(Owners)

\* inputs owned by addr1, addr2, addr1 gave two signatures, one reference and two Sign calls
C1_Witness ==
    /\ Built
    /\ Len(unsigTx.Inputs) = 3
    /\ OwnerOf(1) = addr1 /\ OwnerOf(2) = addr2 /\ OwnerOf(3) = addr1
    /\ IsSignatureBlock(last.payload.UnlockBlocks[1])
    /\ IsSignatureBlock(last.payload.UnlockBlocks[2])
    /\ IsReferenceBlock(last.payload.UnlockBlocks[3])
    /\ Len(last.signCalls) = 2

C3_UnlockBlocksIndexAligned ==
    Built =>
        LET blocks == last.payload.UnlockBlocks
            tx == Deref(last.payload.Transaction)
        IN  /\ Len(blocks) = Len(tx.Inputs)
            /\ tx.Inputs = unsigTx.Inputs /\ InLexicalOrder(tx.Inputs)
            /\ \A i \in 1..Len(blocks) :
                 /\ IsSignatureBlock(blocks[i]) =>
                      LET k == Cardinality({m \in SignaturePositions(blocks) : m <= i})
                      IN  /\ k <= Len(last.signCalls)
                          /\ last.signCalls[k].addr = OwnerOf(i)
                          /\ blocks[i].Signature.type = "Ed25519Signature" =>
                               /\ blocks[i].Signature.Signature =
                                    <<"signature", OwnerOf(i), last.txDataToBeSigned>>
                               /\ blocks[i].Signature.PublicKey = <<"publicKey", OwnerOf(i)>>
                 /\ IsReferenceBlock(blocks[i]) =>
                      /\ blocks[i].Reference + 1 \in SignaturePositions(blocks)
                      /\ OwnerOf(blocks[i].Reference + 1) = OwnerOf(i)
                 /\ IsSignatureBlock(blocks[i]) \/ IsReferenceBlock(blocks[i])

\* a payload for inputs that were added out of their sorted order
C3_Witness ==
    /\ Built
    /\ Len(unsigTx.Inputs) >= 2
    /\ unsigTx.Inputs # last.pre.Inputs
    /\ Len(last.payload.UnlockBlocks) = Len(unsigTx.Inputs)

\* C4 as stated (for a transaction with an input): after Build the inputs and the outputs are each in
\* non-decreasing lexical order, each a permutation of the elements added,
\* and byte-identical elements keep their original relative order.
C4_SortedPermutationStable ==
    (last.op = "Build" /\ Len(unsigTx.Inputs) > 0) =>
        /\ InLexicalOrder(unsigTx.Inputs) /\ InLexicalOrder(unsigTx.Outputs)
        /\ IsPermutationOf(unsigTx.Inputs, AddedInputObjects)
        /\ IsPermutationOf(unsigTx.Outputs, addedOutputs)
        /\ KeepsOrderOfEquals(last.pre.Inputs, unsigTx.Inputs)
        /\ KeepsOrderOfEquals(last.pre.Outputs, unsigTx.Outputs)

\* C4 as amended: after Build the inputs and the outputs are each in
\* non-decreasing lexical order and each a permutation of exactly the
\* elements added; the relative order of byte-identical elements is not fixed.
C4_SortedPermutation ==
    last.op = "Build" =>
        /\ InLexicalOrder(unsigTx.Inputs) /\ InLexicalOrder(unsigTx.Outputs)
        /\ IsPermutationOf(unsigTx.Inputs, AddedInputObjects)
        /\ IsPermutationOf(unsigTx.Outputs, addedOutputs)

\* a Build that had to reorder the outputs, two of them byte-identical
C4_Witness ==
    /\ last.op = "Build"
    /\ unsigTx.Outputs # last.pre.Outputs
    /\ Len(unsigTx.Outputs) = 3
    /\ unsigTx.Outputs[2].bytes = unsigTx.Outputs[3].bytes

\* C5: every signer.Sign call of one Build receives the same message, the
\* serialization of the already sorted transaction; when the serialization
\* fails Build returns the error, no payload, and the signer is not called.
C5_SignsSortedSerialization ==
    last.op = "Build" =>
        /\ \A k \in 1..Len(last.signCalls) :
             last.signCalls[k].msg = <<BytesOf(unsigTx.Inputs), BytesOf(unsigTx.Outputs), unsigTx.Payload>>
        /\ InLexicalOrder(unsigTx.Inputs) /\ InLexicalOrder(unsigTx.Outputs)
        /\ last.err = "serialize" => (last.payload = NilPayload /\ last.signCalls = <<>>)

\* two Sign calls in a Build that had to reorder the inputs
C5_Witness ==
    /\ last.op = "Build"
    /\ Len(last.signCalls) >= 2
    /\ unsigTx.Inputs # last.pre.Inputs
    /\ unsigTx.Payload # Nil

\* C6: when signer.Sign returns an error, Build returns that error and a nil
\* payload at once: the failed call is the last call the signer sees.
C6_SignErrorAborts ==
    last.op = "Build" =>
        \A k \in 1..Len(last.signCalls) :
            last.signCalls[k].err =>
                /\ k = Len(last.signCalls)
                /\ last.err = "sign"
                /\ last.payload = NilPayload

\* the second Sign call failed while a third input was still to be unlocked
C6_Witness ==
    /\ last.op = "Build"
    /\ last.err = "sign"
    /\ Len(last.signCalls) = 2
    /\ Len(unsigTx.Inputs) = 3
    /\ Cardinality(Owners) = 3

\* C7 as stated (for a transaction with an output): Build never returns a
\* payload when the owner of an input is not an Ed25519 address, and no
\* returned SignatureUnlockBlock has a nil Signature.
C7_NoPayloadWithoutSignature ==
    (Built /\ Len(unsigTx.Outputs) > 0) =>
        /\ \A i \in 1..Len(unsigTx.Inputs) : OwnerOf(i).type = "Ed25519Address"
        /\ \A i \in 1..Len(last.payload.UnlockBlocks) :
             IsSignatureBlock(last.payload.UnlockBlocks[i]) =>
                 last.payload.UnlockBlocks[i].Signature # NilSignature

\* C8 as stated (for payloads with an input and an output): the transaction
\* of every payload Build has returned is still what it was when the payload
\* was returned, whatever was called on the builder since.
C8_ReturnedPayloadUnchanged ==
    \A k \in 1..Len(returned) :
        (Len(returned[k].asReturned.Inputs) > 0 /\ Len(returned[k].asReturned.Outputs) > 0) =>
            Deref(returned[k].payload.Transaction) = returned[k].asReturned

\* C9: before any Build, the builder's inputs are the added inputs in call
\* order, its outputs the added outputs in call order, its payload the last
\* payload given (or none), each input's address the one last given for it,
\* and no call has returned an error.
C9_PureAccumulation ==
    builds = 0 =>
        /\ unsigTx.Inputs = AddedInputObjects
        /\ unsigTx.Outputs = addedOutputs
        /\ unsigTx.Payload = givenPayload
        /\ DOMAIN inputToAddr = {addedInputs[k].Input : k \in 1..Len(addedInputs)}
        /\ \A id \in DOMAIN inputToAddr : inputToAddr[id] = LastAddressGiven(id)
        /\ last.err = "none"

\* inputs added out of lexical order, an output and a payload
C9_Witness ==
    /\ builds = 0
    /\ Len(unsigTx.Inputs) = 2
    /\ ~InLexicalOrder(unsigTx.Inputs)
    /\ Len(unsigTx.Outputs) = 1
    /\ unsigTx.Payload # Nil

-----------------------------------------------------------------------------
(* C10: FoundryOutput genesis *)

\* the foundry output the last validation was called on
Validated == ws.Outputs[verdict.index]

ControllerOf(f) == AliasID(Ident(f))

\* C10: genesis validation succeeds only if the serial number s of the new
\* foundry satisfies inCounter < s <= outCounter for the FoundryCounter of the
\* controlling alias on the input and on the output side; with s <= inCounter
\* or s > outCounter it returns an error.
C10_SerialNumberInCounterInterval ==
    verdict.transType = "ChainTransitionTypeGenesis" =>
        LET a == ControllerOf(Validated)
            s == Validated.SerialNumber
            present == a \in DOMAIN ws.InChains.alias /\ a \in DOMAIN ws.OutChains.alias
        IN  /\ verdict.result = NoError =>
                 /\ present
                 /\ ws.InChains.alias[a].FoundryCounter < s
                 /\ s <= ws.OutChains.alias[a].FoundryCounter
            /\ (present /\ (s <= ws.InChains.alias[a].FoundryCounter
                            \/ s > ws.OutChains.alias[a].FoundryCounter)) =>
                 verdict.result = Error("ErrInvalidChainStateTransition", "serial number interval")

\* a genesis accepted with the serial number at the upper end of the interval
\* and two counters consumed
C10_Witness ==
    /\ verdict.transType = "ChainTransitionTypeGenesis"
    /\ verdict.result = NoError
    /\ ControllerOf(Validated) = 1
    /\ Validated.SerialNumber = ws.OutChains.alias[1].FoundryCounter
    /\ ws.InChains.alias[1].FoundryCounter = Validated.SerialNumber - 2

-----------------------------------------------------------------------------
(* C11..C13: FoundryOutput genesis, continued *)

\* the last validation was the genesis of a foundry that is new: its
\* FoundryID is not among the input chains
GenesisOfNew ==
    /\ verdict.transType = "ChainTransitionTypeGenesis"
    /\ ID(verdict.f) \notin ws.InChains.foundry

\* the controlling alias is on both sides and its counters admit the serial number
ReachesOrderCheck ==
    LET a == ControllerOf(verdict.f)
    IN  /\ a \in DOMAIN ws.InChains.alias
        /\ a \in DOMAIN ws.OutChains.alias
        /\ ws.InChains.alias[a].FoundryCounter < verdict.f.SerialNumber
        /\ verdict.f.SerialNumber <= ws.OutChains.alias[a].FoundryCounter

\* the positions before the validated foundry that hold a new foundry of the
\* same controller with a serial number greater than or equal to its own
GreaterOrEqualBefore ==
    {j \in 1..(verdict.index - 1) :
        /\ IsFoundryOutput(ws.Outputs[j])
        /\ Ident(ws.Outputs[j]) = Ident(verdict.f)
        /\ ID(ws.Outputs[j]) \notin ws.InChains.foundry
        /\ ws.Outputs[j].SerialNumber >= verdict.f.SerialNumber}

SerialNumberOutOfOrder == Error("ErrInvalidChainStateTransition", "serial number order")

MissingInputAlias == Error("ErrInvalidChainStateTransition", "missing input alias")

MissingOutputAlias == Error("ErrInvalidChainStateTransition", "missing output alias")

\* C12: a genesis validation returns the missing-alias error, and so checks
\* neither serial number nor balance, unless the alias output of the alias ID
\* taken from the foundry's immutable alias unlock condition is among the
\* input chains and among the output chains of the working set.
C12_GenesisNeedsAliasOnBothSides ==
    verdict.transType = "ChainTransitionTypeGenesis" =>
        LET a == ControllerOf(verdict.f)
            inInput == a \in DOMAIN ws.InChains.alias
            inOutput == a \in DOMAIN ws.OutChains.alias
        IN  /\ ~inInput => verdict.result = MissingInputAlias
            /\ (inInput /\ ~inOutput) => verdict.result = MissingOutputAlias
            /\ (inInput /\ inOutput) => verdict.result \notin {MissingInputAlias, MissingOutputAlias}

\* the alias of the foundry is consumed but not created again, while another
\* alias is on both sides
C12_Witness ==
    /\ verdict.transType = "ChainTransitionTypeGenesis"
    /\ ControllerOf(verdict.f) = 1
    /\ 1 \in DOMAIN ws.InChains.alias
    /\ 1 \notin DOMAIN ws.OutChains.alias
    /\ 2 \in DOMAIN ws.InChains.alias
    /\ 2 \in DOMAIN ws.OutChains.alias
    /\ verdict.result = MissingOutputAlias

\* the output sum minus the input sum of a native token, a missing entry being zero
TokenDelta(tokenID) ==
    (IF tokenID \in DOMAIN ws.OutNativeTokens THEN ws.OutNativeTokens[tokenID] ELSE 0)
    - (IF tokenID \in DOMAIN ws.InNativeTokens THEN ws.InNativeTokens[tokenID] ELSE 0)

SumUnbalanced == Error("ErrNativeTokenSumUnbalanced", "balance")

\* C13: a genesis validation succeeds only if the output sum minus the input
\* sum of the foundry's native token is exactly its CirculatingSupply, and it
\* returns the balance error when every other check passes and the sums differ
\* from that.
C13_GenesisBalancesCirculatingSupply ==
    verdict.transType = "ChainTransitionTypeGenesis" =>
        LET delta == TokenDelta(NativeTokenID(verdict.f))
        IN  /\ verdict.result = NoError => delta = verdict.f.CirculatingSupply
            /\ verdict.result = SumUnbalanced => delta # verdict.f.CirculatingSupply
            /\ (GenesisOfNew /\ ReachesOrderCheck /\ GreaterOrEqualBefore = {}
                /\ delta # verdict.f.CirculatingSupply) => verdict.result = SumUnbalanced

\* a genesis accepted with the token on both sides of the transaction
C13_Witness ==
    /\ verdict.transType = "ChainTransitionTypeGenesis"
    /\ verdict.result = NoError
    /\ NativeTokenID(verdict.f) \in DOMAIN ws.InNativeTokens
    /\ ws.InNativeTokens[NativeTokenID(verdict.f)] = 1
    /\ ws.OutNativeTokens[NativeTokenID(verdict.f)] = 2

-----------------------------------------------------------------------------
(* C14..C19: FoundryOutput state change and destruction *)

StateChanged == verdict.transType = "ChainTransitionTypeStateChange"

\* the validation returned an error of the invalid-state-transition kind: it
\* neither succeeded nor panicked
RecoverableTransitionError == verdict.result.err = "ErrInvalidChainStateTransition"

SameID == ID(verdict.f) = ID(verdict.next)

\* C14, as stated: a state change validation returns a recoverable error
\* whenever the next state is no foundry output or differs from the prior
\* state in the immutable feature blocks, the MaximumSupply or the TokenTag.
C14_ErrorOnAnyMutation ==
    (StateChanged /\ (\/ ~IsFoundryOutput(verdict.next)
                      \/ verdict.f.ImmutableBlocks # verdict.next.ImmutableBlocks
                      \/ verdict.f.MaximumSupply # verdict.next.MaximumSupply
                      \/ verdict.f.TokenTag # verdict.next.TokenTag))
        => RecoverableTransitionError

\* C14, amended: a state change validation returns a recoverable error,
\* whatever the native token sums, whenever the next state is no foundry
\* output, or its immutable feature blocks differ from the prior state's, or
\* it has the prior state's FoundryID and its MaximumSupply or its TokenTag
\* differs.
C14_ErrorOnMutation ==
    (StateChanged /\ (\/ ~IsFoundryOutput(verdict.next)
                      \/ verdict.f.ImmutableBlocks # verdict.next.ImmutableBlocks
                      \/ (SameID /\ verdict.f.MaximumSupply # verdict.next.MaximumSupply)
                      \/ (SameID /\ verdict.f.TokenTag # verdict.next.TokenTag)))
        => RecoverableTransitionError

\* only the token tag changed and the sums balance the change of the supply
C14_Witness ==
    /\ StateChanged
    /\ IsFoundryOutput(verdict.next)
    /\ SameID
    /\ verdict.f.ImmutableBlocks = verdict.next.ImmutableBlocks
    /\ verdict.f.MaximumSupply = verdict.next.MaximumSupply
    /\ verdict.f.TokenTag # verdict.next.TokenTag
    /\ TokenDelta(NativeTokenID(verdict.f)) = verdict.next.CirculatingSupply - verdict.f.CirculatingSupply
    /\ RecoverableTransitionError

\* the next state is a foundry that kept FoundryID, immutable feature blocks,
\* MaximumSupply and TokenTag
ImmutablesKept ==
    /\ IsFoundryOutput(verdict.next)
    /\ SameID
    /\ verdict.f.ImmutableBlocks = verdict.next.ImmutableBlocks
    /\ verdict.f.MaximumSupply = verdict.next.MaximumSupply
    /\ verdict.f.TokenTag = verdict.next.TokenTag

\* C15: a state change from f to a next state n with equal FoundryID,
\* immutable feature blocks, MaximumSupply and TokenTag succeeds if and only
\* if the output sum minus the input sum of the foundry's native token is
\* n.CirculatingSupply - f.CirculatingSupply, be it positive, zero or
\* negative; otherwise it returns the balance error.
C15_StateChangeBalancesSupplyChange ==
    (StateChanged /\ ImmutablesKept) =>
        LET diff == verdict.next.CirculatingSupply - verdict.f.CirculatingSupply
        IN  /\ verdict.result = NoError <=> TokenDelta(NativeTokenID(verdict.f)) = diff
            /\ verdict.result \in {NoError, SumUnbalanced}

\* a decrease of the supply by two was accepted
C15_Witness ==
    /\ StateChanged
    /\ ImmutablesKept
    /\ verdict.next.CirculatingSupply - verdict.f.CirculatingSupply = -2
    /\ TokenDelta(NativeTokenID(verdict.f)) = -2
    /\ verdict.result = NoError

IDsMismatchPanic == Panic("foundry IDs mismatch")

\* C16, as stated: a state change validation with a next foundry output of
\* another FoundryID panics, whatever the other fields are.
C16_PanicOnAnyIDMismatch ==
    (StateChanged /\ IsFoundryOutput(verdict.next) /\ ~SameID) => verdict.result = IDsMismatchPanic

\* C16, amended: a state change validation with a next foundry output that
\* has the prior state's immutable feature blocks and another FoundryID
\* panics and returns neither an error nor success, whatever MaximumSupply,
\* TokenTag and supplies are; the panic happens in no other case.
C16_PanicOnIDMismatch ==
    StateChanged =>
        (verdict.result = IDsMismatchPanic
            <=> (/\ IsFoundryOutput(verdict.next)
                 /\ verdict.f.ImmutableBlocks = verdict.next.ImmutableBlocks
                 /\ ~SameID))

\* the panic with MaximumSupply and TokenTag changed as well
C16_Witness ==
    /\ StateChanged
    /\ IsFoundryOutput(verdict.next)
    /\ ~SameID
    /\ verdict.f.MaximumSupply # verdict.next.MaximumSupply
    /\ verdict.f.TokenTag # verdict.next.TokenTag
    /\ verdict.result = IDsMismatchPanic

\* C17: a destroy validation succeeds if and only if the output sum minus the
\* input sum of the foundry's native token is 0 - CirculatingSupply of the
\* destroyed foundry.
C17_DestroyBurnsCirculatingSupply ==
    verdict.transType = "ChainTransitionTypeDestroy" =>
        (verdict.result = NoError
            <=> TokenDelta(NativeTokenID(verdict.f)) = 0 - verdict.f.CirculatingSupply)

TransitionTypes ==
    {"ChainTransitionTypeGenesis", "ChainTransitionTypeStateChange", "ChainTransitionTypeDestroy"}

UnknownTypePanic == Panic("unknown chain transition type")

\* C18: ValidateStateTransition called with a transition type other than
\* Genesis, StateChange and Destroy panics, returning neither success nor an
\* error, and called with one of the three it never panics for the type.
C18_UnknownTransitionTypePanics ==
    verdict # NoVerdict =>
        (verdict.result = UnknownTypePanic <=> verdict.transType \notin TransitionTypes)

\* a call with an unknown type on sums that balance as a destruction would need
C18_Witness ==
    /\ verdict.transType \in UnknownTransitionTypes
    /\ TokenDelta(NativeTokenID(verdict.f)) = 0
    /\ verdict.result = UnknownTypePanic

\* C19: no genesis validation accepts a new foundry, and no state change
\* validation of a prior state within its maximum accepts a next state, whose
\* CirculatingSupply exceeds its MaximumSupply, so that
\* 0 <= CirculatingSupply <= MaximumSupply holds for every accepted foundry.
C19_AcceptedSupplyWithinMaximum ==
    /\ (verdict.transType = "ChainTransitionTypeGenesis" /\ verdict.result = NoError)
           => verdict.f.CirculatingSupply <= verdict.f.MaximumSupply
    /\ (StateChanged /\ verdict.result = NoError
            /\ verdict.f.CirculatingSupply <= verdict.f.MaximumSupply)
           => verdict.next.CirculatingSupply <= verdict.next.MaximumSupply

-----------------------------------------------------------------------------
(* C20: FoundryID *)

RECURSIVE LittleEndianValue(_)
\* the number a sequence of bytes denotes, least significant byte first
LittleEndianValue(bytes) ==
    IF bytes = <<>> THEN 0 ELSE Head(bytes) + 256 * LittleEndianValue(Tail(bytes))

\* C20: FoundryOutput.ID() is the controller address bytes, then the serial
\* number as four little-endian bytes, then the token scheme type byte, and
\* nothing else: two foundry outputs have equal IDs if and only if they agree
\* on controller address, serial number and token scheme type, whatever their
\* token tags and supplies, and FoundrySerialNumber() of the ID is the
\* SerialNumber it was built from; NativeTokenID() is the ID, then the token tag.
C20_FoundryIDOfControllerSerialScheme ==
    verdict.transType = "ID" =>
        LET f == verdict.f
            g == verdict.next
            id == verdict.ids.f
            n == Len(id)
        IN  /\ n = 6
            /\ SubSeq(id, 1, 1) = <<AliasID(Ident(f))>>
            /\ \A k \in 2..5 : id[k] \in 0..255
            /\ LittleEndianValue(SubSeq(id, 2, 5)) = f.SerialNumber
            /\ id[n] = f.TokenScheme.type
            /\ (id = verdict.ids.next
                    <=> (/\ Ident(f) = Ident(g)
                         /\ f.SerialNumber = g.SerialNumber
                         /\ f.TokenScheme.type = g.TokenScheme.type))
            /\ verdict.ids.serial = f.SerialNumber
            /\ verdict.ids.token = id \o f.TokenTag

\* serial numbers 257 and 1, equal in the lowest byte, give different IDs, and
\* another token tag and supply give the same one
C20_Witness ==
    /\ verdict.transType = "ID"
    /\ verdict.f.SerialNumber = 257
    /\ verdict.ids.serial = 257
    /\ \E g \in IDFoundries :
         /\ g.SerialNumber = 1
         /\ Ident(g) = Ident(verdict.f)
         /\ g.TokenScheme = verdict.f.TokenScheme
         /\ verdict.ids.f # ID(g)
    /\ verdict.next.SerialNumber = 257
    /\ verdict.next.TokenTag # verdict.f.TokenTag
    /\ verdict.next.CirculatingSupply # verdict.f.CirculatingSupply
    /\ verdict.ids.f = verdict.ids.next

-----------------------------------------------------------------------------
(* C21, C22: binary codec *)

RoundTripped == outcome.op = "RoundTrip"

\* C21: for every ReferenceUnlockBlock with a Reference in 0..65535 and for
\* the valid FoundryOutputs and TreasuryOutputs, Serialize succeeds and
\* Deserialize of the bytes it produced succeeds, yields a value equal to the
\* original and reports as read exactly the number of bytes Serialize produced.
C21_BinaryRoundTrip ==
    RoundTripped =>
        /\ outcome.serialized.err = Nil
        /\ outcome.deserialized.err = Nil
        /\ outcome.deserialized.value = subject.value
        /\ outcome.deserialized.n = Len(outcome.serialized.data)

\* a foundry output with native tokens, feature blocks and supplies of more
\* than one byte that differ from each other came back
C21_Witness ==
    /\ RoundTripped
    /\ subject.value.type = "FoundryOutput"
    /\ subject.value.CirculatingSupply = 300
    /\ subject.value.MaximumSupply = 70000
    /\ Len(subject.value.NativeTokens) = 1
    /\ Len(subject.value.Blocks) = 1
    /\ Len(subject.value.ImmutableBlocks) = 1
    /\ outcome.deserialized.value = subject.value
    /\ outcome.deserialized.n > 2 * Uint256ByteSize

\* C22: ReferenceUnlockBlock.Deserialize of a slice of fewer than
\* ReferenceUnlockBlockSize bytes returns the not-enough-data error in every
\* mode; it never panics on a read out of bounds.
C22_ShortSliceIsTruncatedInput ==
    (outcome.op = "Deserialize" /\ Len(subject.data) < ReferenceUnlockBlockSize) =>
        outcome.deserialized.err = "ErrDeserializationNotEnoughData"

-----------------------------------------------------------------------------
(* C24: the collections of a foundry output *)

\* what a foundry output may carry in the collection: exactly one
\* immutable-alias unlock condition, at most one metadata feature block
LegalCollection ==
    IF subject.field = "Conditions"
    THEN /\ Len(subject.elements) = 1
         /\ subject.elements[1].type = "ImmutableAliasUnlockCondition"
    ELSE /\ Len(subject.elements) <= 1
         /\ \A i \in 1..Len(subject.elements) : subject.elements[i].type = "MetadataFeatureBlock"

\* C24: the unlock conditions, feature blocks and immutable feature blocks of
\* a foundry output are accepted by the encode with validation exactly when
\* they are accepted by the decode with validation: one immutable-alias unlock
\* condition, at most one metadata feature block; everything else is rejected
\* on both paths.
C24_SameCollectionsOnReadAndWrite ==
    outcome.op = "Collection" =>
        /\ outcome.written.err = Nil <=> LegalCollection
        /\ outcome.read.err = Nil <=> LegalCollection
        /\ LegalCollection => outcome.read.value = subject.elements

\* an address unlock condition next to the immutable-alias one was rejected on both paths
C24_Witness ==
    /\ outcome.op = "Collection"
    /\ subject.field = "Conditions"
    /\ Len(subject.elements) = 2
    /\ subject.elements[1].type = "ImmutableAliasUnlockCondition"
    /\ subject.elements[2].type = "AddressUnlockCondition"
    /\ outcome.written.err # Nil
    /\ outcome.read.err # Nil

-----------------------------------------------------------------------------
(* C25: the JSON selector of unlock blocks *)

\* C25: jsonUnlockBlockSelector returns the signature object only for the
\* signature type, the reference object only for the reference type, and
\* ErrUnknownUnlockBlockType for every other integer, those outside 0..255
\* included.
C25_SelectsByTheInteger ==
    outcome.op = "Select" =>
        /\ outcome.selected.obj = "jsonSignatureUnlockBlock" <=> subject.ty = UnlockBlockSignature
        /\ outcome.selected.obj = "jsonReferenceUnlockBlock" <=> subject.ty = UnlockBlockReference
        /\ subject.ty \notin {UnlockBlockSignature, UnlockBlockReference}
              => outcome.selected.err = "ErrUnknownUnlockBlockType"

-----------------------------------------------------------------------------
(* C26: the validation is read-only *)

-----------------------------------------------------------------------------
(* C27: the serial numbers of the new foundries of a transaction *)

\* the positions of the new foundry outputs that alias a controls
NewFoundriesOf(a) == {i \in NewFoundries(ws) : ControllerOf(ws.Outputs[i]) = a}

Controllers == {ControllerOf(ws.Outputs[i]) : i \in NewFoundries(ws)}

-----------------------------------------------------------------------------
(* C23, C28: the lock of the internal API *)

\* the goroutines between the return of RLock and RUnlock
InEncodeOrDecode == {g \in Goroutines : goroutines[g].pc \in {"RLocked", "in API", "RUnlock"}}

\* C23: whatever the interleaving of internalEncode, internalDecode and
\* SwapInternalAPI, _internalAPI is never assigned while an encode or decode
\* is between acquiring and releasing the lock, and the API an encode or decode
\* works with is the installed one up to its release of the lock; several
\* encodes and decodes may hold the lock together.
C23_NoSwapDuringEncodeOrDecode ==
    [][/\ installed' # installed => InEncodeOrDecode = {}
       /\ \A g \in Goroutines :
              goroutines[g].pc \in {"in API", "RUnlock"}
                  => /\ internalAPI = goroutines[g].api
                     /\ internalAPI' = goroutines[g].api
                     /\ goroutines'[g].api = goroutines[g].api]_vars

\* an encode and a decode are in the API together while a swap waits for them
C23_Witness ==
    /\ \E g, h \in Goroutines :
           /\ goroutines[g].op = "internalEncode"
           /\ goroutines[h].op = "internalDecode"
           /\ goroutines[g].pc = "in API"
           /\ goroutines[h].pc = "in API"
           /\ {g, h} \subseteq internalAPIMu.readers
    /\ \E g \in Goroutines : goroutines[g].pc = "Lock blocked"

\* the goroutines that are not in a call
Returned(g) == goroutines[g].pc \in {"not called", "done"}

\* C28: the lock is released on every way out of internalEncode,
\* internalDecode and SwapInternalAPI, an error or a panic of the API included;
\* from some time on every call that was made has returned, so nothing
\* deadlocks and a waiting SwapInternalAPI completes (each goroutine makes one
\* call); an encode or decode called after a
\* SwapInternalAPI returned works with the API of that swap or of a later one.
C28_LockReleasedSwapCompletes ==
    /\ [](\A g \in Goroutines :
              Returned(g) => /\ g \notin internalAPIMu.readers \cup internalAPIMu.readerSem
                             /\ internalAPIMu.w # g)
    /\ [](\A g \in Goroutines :
              (goroutines[g].op \in {"internalEncode", "internalDecode"} /\ goroutines[g].used > 0)
                  => goroutines[g].used >= goroutines[g].since)
    /\ <>[](\A g \in Goroutines : Returned(g))

\* a swap waited for a reader and returned; an encode called after that and
\* ended by an error used the new API and left the lock free
C28_Witness ==
    \E g, h \in Goroutines :
        /\ goroutines[g].op = "SwapInternalAPI"
        /\ goroutines[g].pc = "done"
        /\ goroutines[h].op = "internalEncode"
        /\ goroutines[h].pc = "done"
        /\ goroutines[h].since = goroutines[g].used
        /\ goroutines[h].since > 1
        /\ goroutines[h].api = goroutines[g].newAPI
        /\ goroutines[h].err = "error"
        /\ internalAPIMu = UnlockedRWMutex

====
